---- MODULE Spec2Model ----
(***************************************************************************)
(* A model of golang.org/x/perf benchproc: projection parsing sessions,    *)
(* Schemas, interned Configs and their order.                              *)
(*                                                                         *)
(* Go strings and []byte are sequences of one-character strings, so that   *)
(* prefix tests, splitting, byte-wise comparison and number parsing are    *)
(* computed as the code computes them.                                     *)
(***************************************************************************)
EXTENDS Integers, Sequences, FiniteSets, TLC

VARIABLES
    pp,        \* the ProjectionParser
    filter,    \* the Filter handed to every Parse call
    schemas,   \* the Schemas returned by Parse and Residue, in creation order
    calls,     \* log of Project/ProjectValues calls: schema, populated rows, Configs returned
    parses,    \* log of Parse calls: the parts, the session before the call, the outcome
    sorted,    \* the last SortConfigs call: schema, slice before, slice after
    read,      \* the last NewConfigHeader or NonSingularFields call and its result
    readers,   \* the goroutines reading Configs: where each is in its operation
    query      \* a filter expression being written, and what ParseFilter made of it

vars == <<pp, filter, schemas, calls, parses, sorted, read, readers, query>>

----------------------------------------------------------------------------
(* Strings and bytes. *)

Ascii == <<" ", "!", "QUOTE", "#", "$", "%", "&", "'", "(", ")", "*", "+", ",", "-", ".", "/",
           "0", "1", "2", "3", "4", "5", "6", "7", "8", "9", ":", ";", "<", "=", ">", "?",
           "@", "A", "B", "C", "D", "E", "F", "G", "H", "I", "J", "K", "L", "M", "N", "O",
           "P", "Q", "R", "S", "T", "U", "V", "W", "X", "Y", "Z", "[", "BACKSLASH", "]", "^", "_",
           "BACKTICK", "a", "b", "c", "d", "e", "f", "g", "h", "i", "j", "k", "l", "m", "n", "o",
           "p", "q", "r", "s", "t", "u", "v", "w", "x", "y", "z", "{", "|", "}", "~">>

\* (The three characters spelled out are never used; they keep the positions.)
CodeOf(tbl) == [c \in {tbl[i] : i \in DOMAIN tbl} |-> 31 + (CHOOSE i \in DOMAIN tbl : tbl[i] = c)]

\* The byte value of a character.
Code == CodeOf(Ascii)

Min(a, b) == IF a < b THEN a ELSE b

SetMin(S) == CHOOSE x \in S : \A y \in S : x <= y

SetMax(S) == CHOOSE x \in S : \A y \in S : y <= x

Range(f) == {f[i] : i \in DOMAIN f}

\* Go's a < b on strings: byte-wise lexicographic.
RECURSIVE StrLess(_, _)
StrLess(a, b) ==
    IF b = <<>> THEN FALSE
    ELSE IF a = <<>> THEN TRUE
    ELSE IF Head(a) = Head(b) THEN StrLess(Tail(a), Tail(b))
    ELSE Code[Head(a)] < Code[Head(b)]

HasPrefix(s, p) == Len(p) <= Len(s) /\ SubSeq(s, 1, Len(p)) = p

HasSuffix(s, p) == Len(p) <= Len(s) /\ SubSeq(s, Len(s) - Len(p) + 1, Len(s)) = p

Contains(s, p) == \E i \in 0..(Len(s) - Len(p)) : SubSeq(s, i + 1, i + Len(p)) = p

\* '0' <= c && c <= '9'
IsDigit(c) == c \in {"0", "1", "2", "3", "4", "5", "6", "7", "8", "9"}

RECURSIVE Concat(_)
Concat(ss) == IF ss = <<>> THEN <<>> ELSE Head(ss) \o Concat(Tail(ss))

\* The elements of a finite set of integers, ascending.
RECURSIVE Ascending(_)
Ascending(S) == IF S = {} THEN <<>> ELSE <<SetMin(S)>> \o Ascending(S \ {SetMin(S)})

----------------------------------------------------------------------------
(* benchfmt.Name and benchfmt.Result.  A Result is a record                *)
(* [Name, FileConfig (a sequence of [Key, Value]), Units (the units of     *)
(* its Values, in order)].                                                  *)

\* A variant of the loop of Name.splitGomaxprocs that takes a final "-"
\* for a suffix.
RECURSIVE gomaxprocsAtAny(_, _)
gomaxprocsAtAny(n, i) ==
    IF i < 1 THEN 0
    ELSE IF n[i] = "-" THEN i
    ELSE IF ~IsDigit(n[i]) THEN 0
    ELSE gomaxprocsAtAny(n, i - 1)

\* The loop of Name.splitGomaxprocs, from index i down: where the suffix
\* starts (1-based), or 0 if there is none.
RECURSIVE gomaxprocsAt(_, _)
gomaxprocsAt(n, i) ==
    IF i < 1 THEN 0
    ELSE IF n[i] = "-" /\ i < Len(n) THEN i
    ELSE IF ~IsDigit(n[i]) THEN 0
    ELSE gomaxprocsAt(n, i - 1)

\* Name.splitGomaxprocs; gomaxprocs = <<>> stands for nil.
splitAt(n, i) ==
    IF i = 0 THEN [prefix |-> n, gomaxprocs |-> <<>>]
    ELSE [prefix |-> SubSeq(n, 1, i - 1), gomaxprocs |-> SubSeq(n, i, Len(n))]

splitGomaxprocs(n) == splitAt(n, gomaxprocsAt(n, Len(n)))

\* Name.Base
Base(n) ==
    IF \E i \in 1..Len(n) : n[i] = "/"
    THEN SubSeq(n, 1, SetMin({i \in 1..Len(n) : n[i] = "/"}) - 1)
    ELSE splitGomaxprocs(n).prefix

\* Name.Parts: [base, parts].
\* The pieces of buf that start at its first byte and at each of cuts, the
\* positions of its slashes.
cutAt(buf, cuts) ==
    [k \in 1..(Len(cuts) + 1) |->
        SubSeq(buf, IF k = 1 THEN 1 ELSE cuts[k - 1],
                    IF k = Len(cuts) + 1 THEN Len(buf) ELSE cuts[k] - 1)]

nameParts(buf, gomaxprocs) ==
    cutAt(buf, Ascending({i \in 1..Len(buf) : buf[i] = "/"}))
        \o (IF gomaxprocs # <<>> THEN <<gomaxprocs>> ELSE <<>>)

baseAndParts(all) == [base |-> Head(all), parts |-> Tail(all)]

splitParts(sp) == baseAndParts(nameParts(sp.prefix, sp.gomaxprocs))

Parts(n) == splitParts(splitGomaxprocs(n))

\* Result.FileConfigIndex: the position recorded for key in configPos, or 0
\* if there is none.  The index is built front to back, so the last entry
\* with a key is the one it records.
FileConfigIndex(res, key) ==
    IF \A i \in 1..Len(res.FileConfig) : res.FileConfig[i].Key # key THEN 0
    ELSE SetMax({i \in 1..Len(res.FileConfig) : res.FileConfig[i].Key = key})

----------------------------------------------------------------------------
(* Extractors.  A closure is the record of what it captured.               *)

S_name == <<".", "n", "a", "m", "e">>
S_fullname == <<".", "f", "u", "l", "l", "n", "a", "m", "e">>
S_config == <<".", "c", "o", "n", "f", "i", "g">>
S_unit == <<".", "u", "n", "i", "t">>
S_gomaxprocs == <<"/", "g", "o", "m", "a", "x", "p", "r", "o", "c", "s">>

Extractor(kind, key, replace, excName, excGomaxprocs) ==
    [kind |-> kind, key |-> key, replace |-> replace,
     excName |-> excName, excGomaxprocs |-> excGomaxprocs]

extractNameFn == Extractor("name", <<>>, <<>>, FALSE, FALSE)

extractFullFn == Extractor("full", <<>>, <<>>, FALSE, FALSE)

\* newExtractor: the extractor for key; ok = FALSE is the error return.
newExtractor(key) ==
    IF Len(key) = 0 THEN [ok |-> FALSE, ext |-> extractFullFn]
    ELSE IF key = S_name THEN [ok |-> TRUE, ext |-> extractNameFn]
    ELSE IF key = S_fullname THEN [ok |-> TRUE, ext |-> extractFullFn]
    ELSE IF HasPrefix(key, <<"/">>)
    THEN [ok |-> TRUE,
          ext |-> Extractor("namePart", key \o <<"=">>, <<>>, FALSE, key = S_gomaxprocs)]
    ELSE [ok |-> TRUE, ext |-> Extractor("fileKey", key, <<>>, FALSE, FALSE)]

\* A variant of newExtractorFullName that excludes nothing.
newExtractorFullNamePlain(exclude) == extractFullFn

\* newExtractorFullName
newExtractorFullName(exclude) ==
    LET subs == SelectSeq(exclude, LAMBDA k : HasPrefix(k, <<"/">>))
        replace == [i \in 1..Len(subs) |-> subs[i] \o <<"=">>]
        excName == \E i \in 1..Len(exclude) : exclude[i] = S_name
        excGomaxprocs == \E i \in 1..Len(subs) : subs[i] = S_gomaxprocs
    IN  IF Len(replace) = 0 /\ ~excName /\ ~excGomaxprocs THEN extractFullFn
        ELSE Extractor("fullExcluded", <<>>, replace, excName, excGomaxprocs)

\* A variant of the loop over parts that drops the excluded parts.
RECURSIVE normalizePartsDropping(_, _, _)
normalizePartsDropping(parts, replace, excGomaxprocs) ==
    IF parts = <<>> THEN <<>>
    ELSE (IF \/ \E i \in 1..Len(replace) : HasPrefix(Head(parts), replace[i])
             \/ excGomaxprocs /\ Head(parts)[1] = "-"
          THEN <<>>
          ELSE Head(parts))
             \o normalizePartsDropping(Tail(parts), replace, excGomaxprocs)

\* The loop over parts in extractFullExcluded.
RECURSIVE normalizeParts(_, _, _)
normalizeParts(parts, replace, excGomaxprocs) ==
    IF parts = <<>> THEN <<>>
    ELSE (IF \E i \in 1..Len(replace) : HasPrefix(Head(parts), replace[i])
          THEN replace[SetMin({i \in 1..Len(replace) : HasPrefix(Head(parts), replace[i])})]
                   \o <<"*">>
          ELSE IF excGomaxprocs /\ Head(parts)[1] = "-" THEN <<"-", "*">>
          ELSE Head(parts))
             \o normalizeParts(Tail(parts), replace, excGomaxprocs)

\* extractFullExcluded
\* The name extractFullExcluded builds from base and parts.
newName(bp, replace, excName, excGomaxprocs) ==
    (IF excName THEN <<"*">> ELSE bp.base) \o normalizeParts(bp.parts, replace, excGomaxprocs)

extractFullExcluded(res, replace, excName, excGomaxprocs) ==
    IF \/ excName
       \/ \E i \in 1..Len(replace) : Contains(res.Name, replace[i])
       \/ excGomaxprocs /\ \E i \in 1..Len(res.Name) : res.Name[i] = "-"
    THEN newName(Parts(res.Name), replace, excName, excGomaxprocs)
    ELSE res.Name

\* extractNamePart
\* The search for the prefix in extractNamePart.
RECURSIVE searchPrefix(_, _)
searchPrefix(parts, prefix) ==
    IF parts = <<>> THEN <<>>
    ELSE IF HasPrefix(Head(parts), prefix)
    THEN SubSeq(Head(parts), Len(prefix) + 1, Len(Head(parts)))
    ELSE searchPrefix(Tail(parts), prefix)

namePartOf(parts, prefix, isGomaxprocs) ==
    IF isGomaxprocs /\ Len(parts) > 0 /\ parts[Len(parts)][1] = "-"
    THEN Tail(parts[Len(parts)])
    ELSE searchPrefix(parts, prefix)

extractNamePart(res, prefix, isGomaxprocs) ==
    namePartOf(Parts(res.Name).parts, prefix, isGomaxprocs)

\* extractFileKey
valueAt(res, pos) == IF pos = 0 THEN <<>> ELSE res.FileConfig[pos].Value

extractFileKey(res, key) == valueAt(res, FileConfigIndex(res, key))

\* Calling an extractor closure on a Result.
Extract(ext, res) ==
    CASE ext.kind = "name" -> Base(res.Name)
      [] ext.kind = "full" -> res.Name
      [] ext.kind = "namePart" -> extractNamePart(res, ext.key, ext.excGomaxprocs)
      [] ext.kind = "fileKey" -> extractFileKey(res, ext.key)
      [] ext.kind = "fullExcluded" ->
            extractFullExcluded(res, ext.replace, ext.excName, ext.excGomaxprocs)

----------------------------------------------------------------------------
(* Orders.  A float64 is [kind, n, d]: kind "num" is the number n / 10^d,  *)
(* and the other kinds are "nan", "inf", "ninf".  The strings given to the *)
(* model have no exponent, hexadecimal or underscore form, and few enough  *)
(* digits that float64 holds n / 10^d exactly.                             *)

RECURSIVE Pow(_, _)
Pow(b, e) == IF e = 0 THEN 1 ELSE b * Pow(b, e - 1)

RECURSIVE DigitsValue(_)
DigitsValue(ds) ==
    IF ds = <<>> THEN 0
    ELSE 10 * DigitsValue(SubSeq(ds, 1, Len(ds) - 1)) + (Code[ds[Len(ds)]] - 48)

\* unicode.ToLower on one byte whose value is code.
lowerByte(c, code) == IF code >= 65 /\ code <= 90 THEN Ascii[code - 31 + 32] ELSE c

Lower(s) == [i \in 1..Len(s) |-> lowerByte(s[i], Code[s[i]])]

NoFloat == [ok |-> FALSE, kind |-> "num", n |-> 0, d |-> 0]

Float(kind, n, d) == [ok |-> TRUE, kind |-> kind, n |-> n, d |-> d]

\* The value of a mantissa: the digits of x, and how many follow the point.
mantissa(x, digits) ==
    IF digits = <<>> THEN NoFloat
    ELSE Float("num", DigitsValue(digits),
               IF \A i \in 1..Len(x) : x[i] # "." THEN 0
               ELSE Len(x) - SetMin({i \in 1..Len(x) : x[i] = "."}))

\* strconv.ParseFloat(x, 64) on a decimal mantissa (no sign): digits with at
\* most one point and at least one digit.
ParseMantissa(x) ==
    IF \/ \E i \in 1..Len(x) : ~IsDigit(x[i]) /\ x[i] # "."
       \/ Cardinality({i \in 1..Len(x) : x[i] = "."}) > 1
    THEN NoFloat
    ELSE mantissa(x, SelectSeq(x, IsDigit))

negate(neg, m) == IF m.ok /\ neg THEN Float("num", 0 - m.n, m.d) ELSE m

\* low is the body in lower case.
parseSigned(signed, neg, body, low) ==
    IF low \in {<<"i", "n", "f">>, <<"i", "n", "f", "i", "n", "i", "t", "y">>}
    THEN Float(IF neg THEN "ninf" ELSE "inf", 0, 0)
    ELSE IF ~signed /\ low = <<"n", "a", "n">> THEN Float("nan", 0, 0)
    ELSE negate(neg, ParseMantissa(body))

parseBody(signed, neg, body) == parseSigned(signed, neg, body, Lower(body))

\* strconv.ParseFloat(x, 64): an optional sign, then "inf", "infinity" (any
\* case) or a mantissa; or "nan" (any case) without a sign.
ParseFloat(x) ==
    IF Len(x) > 0 /\ x[1] \in {"+", "-"}
    THEN parseBody(TRUE, x[1] = "-", Tail(x))
    ELSE parseBody(FALSE, FALSE, x)

\* numPrefixes
numPrefixes == <<"K", "M", "G", "T", "P", "E", "Z", "Y">>

\* A byte of the class [0-9.]
isNum(c) == IsDigit(c) \/ c = "."

\* Where the run of [0-9.] that holds position j ends.
RECURSIVE numEnd(_, _)
numEnd(x, j) == IF j < Len(x) /\ isNum(x[j + 1]) THEN numEnd(x, j + 1) ELSE j

\* The submatch ([kKMGTPEZY]i?)? after position to.
numPrefix(x, to) ==
    IF to < Len(x) /\ x[to + 1] \in {"k", "K", "M", "G", "T", "P", "E", "Z", "Y"}
    THEN IF to + 1 < Len(x) /\ x[to + 2] = "i" THEN SubSeq(x, to + 1, to + 2)
         ELSE SubSeq(x, to + 1, to + 1)
    ELSE <<>>

numMatch(x, from, to) ==
    [found |-> TRUE, number |-> SubSeq(x, from, to), prefix |-> numPrefix(x, to)]

numFrom(x, from) == numMatch(x, from, numEnd(x, from))

\* numRe.FindStringSubmatch(x): the leftmost match of
\* ([0-9.]+)([kKMGTPEZY]i?)?[bB]? ; [found, number (subs[1]), prefix (subs[2])].
numRe(x) ==
    IF \A i \in 1..Len(x) : ~isNum(x[i])
    THEN [found |-> FALSE, number |-> <<>>, prefix |-> <<>>]
    ELSE numFrom(x, SetMin({i \in 1..Len(x) : isNum(x[i])}))

\* The exponent parseNum finds for a prefix: its 1-based place in numPrefixes.
prefixExp(pre) == CHOOSE i \in 1..Len(numPrefixes) : numPrefixes[i] = pre

\* v scaled by the prefix the match carries.
scaled(v, prefix) ==
    IF Len(prefix) = 0 THEN v
    ELSE Float("num",
               v.n * Pow(IF HasSuffix(prefix, <<"i">>) THEN 1024 ELSE 1000,
                         prefixExp(IF prefix[1] = "k" THEN "K" ELSE prefix[1])),
               v.d)

parseSub(subs, v) == IF subs.found /\ v.ok THEN scaled(v, subs.prefix) ELSE NoFloat

parseMatch(subs) == parseSub(subs, ParseFloat(subs.number))

parseWhole(x, whole) == IF whole.ok THEN whole ELSE parseMatch(numRe(x))

\* parseNum
parseNum(x) == parseWhole(x, ParseFloat(x))

IsNaN(f) == f.kind = "nan"

\* aa < bb on float64
FloatLess(aa, bb) ==
    CASE IsNaN(aa) \/ IsNaN(bb) -> FALSE
      [] aa.kind = "ninf" -> bb.kind # "ninf"
      [] aa.kind = "inf" -> FALSE
      [] bb.kind = "ninf" -> FALSE
      [] bb.kind = "inf" -> TRUE
      [] OTHER -> aa.n * Pow(10, bb.d) < bb.n * Pow(10, aa.d)

\* builtinOrders["alpha"]: strings.Compare
cmpAlpha(a, b) == IF a = b THEN 0 ELSE IF StrLess(a, b) THEN -1 ELSE 1

\* A variant of the comparison that treats a NaN as any other number.
cmpParsedPlain(aa, bb) ==
    IF aa.ok /\ bb.ok
    THEN IF FloatLess(aa, bb) THEN -1
         ELSE IF FloatLess(bb, aa) THEN 1
         ELSE 0
    ELSE IF ~aa.ok /\ ~bb.ok THEN 0
    ELSE IF aa.ok THEN -1
    ELSE 1

\* The comparison builtinOrders["num"] makes of the two parse results.
cmpParsed(aa, bb) ==
    IF aa.ok /\ bb.ok
    THEN IF FloatLess(aa, bb) \/ (~IsNaN(aa) /\ IsNaN(bb)) THEN -1
         ELSE IF FloatLess(bb, aa) \/ (IsNaN(aa) /\ ~IsNaN(bb)) THEN 1
         ELSE 0
    ELSE IF ~aa.ok /\ ~bb.ok THEN 0
    ELSE IF aa.ok THEN -1
    ELSE 1

\* builtinOrders["num"]
cmpNum(a, b) == cmpParsed(parseNum(a), parseNum(b))

\* The names of builtinOrders.
builtinOrders == {"alpha", "num"}

\* Reading a Go map[string]int: the zero value for a missing key.
MapGet(m, k) == IF k \in DOMAIN m THEN m[k] ELSE 0

\* fixedMap of makeProjection: later duplicates overwrite earlier ones.
fixedMap(fixed) ==
    [v \in Range(fixed) |-> SetMax({i \in 1..Len(fixed) : fixed[i] = v}) - 1]

----------------------------------------------------------------------------
(* Schema, Field and Config.                                               *)
(*                                                                         *)
(* A Schema is a record: nodes is the heap of its fieldInternal nodes in   *)
(* allocation order (node 1 is the root; a Field is a node's position),    *)
(* cnodes the heap of its configNodes in allocation order (a Config is a   *)
(* configNode's position, so == on Configs is = on positions).  Slice and  *)
(* row indices are 0-based in the code and 1-based here.                   *)

\* Distinct values of the maphash in the model; strings that collide under
\* it stand for 64-bit collisions.
HashBuckets == 2

RootField == 1

NoOrder == [v \in {} |-> 0]

\* &fieldInternal{schema: s, idx: idx} under the name `name`
NewNode(name, idx) ==
    [Name |-> name, idx |-> idx, sub |-> <<>>, cmp |-> "nil", fixed |-> <<>>,
     hasOrder |-> FALSE, order |-> NoOrder]

\* newSchema
newSchema ==
    [nodes |-> <<NewNode(<<>>, -1)>>, nFields |-> 0, unitField |-> 0,
     flatCache |-> [valid |-> FALSE, fields |-> <<>>], project |-> <<>>,
     row |-> <<>>, interns |-> {}, configs |-> [h \in {} |-> <<>>], cnodes |-> <<>>]

\* The body of Schema.addField once the index is chosen: [s, field].
addFieldAt(s, group, name, idx) ==
    LET field == Len(s.nodes) + 1
    IN  [s |-> [s EXCEPT !.nodes = Append([@ EXCEPT ![group].sub = Append(@, field)],
                                          NewNode(name, idx)),
                         !.nFields = @ + 1,
                         !.row = Append(@, <<>>),
                         !.flatCache = [valid |-> FALSE, fields |-> <<>>]],
         field |-> field]

\* A variant of addField that numbers a field by its place in its parent.
addFieldInParent(s, group, name) == addFieldAt(s, group, name, Len(s.nodes[group].sub))

\* A variant of addField that leaves the cached flattening in place.
addFieldStale(s, group, name) ==
    [s |-> [addFieldAt(s, group, name, s.nFields).s EXCEPT !.flatCache = s.flatCache],
     field |-> Len(s.nodes) + 1]

\* Schema.addField: [s, field].  (The callers modelled here always pass a
\* group, so the panic is not reached.)
addField(s, group, name) == addFieldAt(s, group, name, s.nFields)

\* Schema.addGroup: [s, field].
addGroup(s, group, name) ==
    LET field == Len(s.nodes) + 1
    IN  [s |-> [s EXCEPT !.nodes = Append([@ EXCEPT ![group].sub = Append(@, field)],
                                          NewNode(name, -1))],
         field |-> field]

\* The walk of Schema.Fields from node f.
RECURSIVE walk(_, _)
walk(s, f) ==
    IF s.nodes[f].idx # -1 THEN <<f>>
    ELSE Concat([i \in 1..Len(s.nodes[f].sub) |-> walk(s, s.nodes[f].sub[i])])

\* Schema.Fields: what it returns.
Fields(s) == IF s.flatCache.valid THEN s.flatCache.fields ELSE walk(s, RootField)

\* Schema.Fields: the Schema it leaves, with the flattening cached.
cacheFields(s) == [s EXCEPT !.flatCache = [valid |-> TRUE, fields |-> Fields(s)]]

\* Schema.intern
intern(s, b) == [s EXCEPT !.interns = @ \cup {b}]

\* (*row)[field.idx] = s.intern(val)
setRow(s, field, val) == [intern(s, val) EXCEPT !.row[s.nodes[field].idx + 1] = val]

\* initField of makeProjection, for a projection with the given Order and
\* Fixed list.
initField(s, field, order, fixed) ==
    CASE order = "fixed" ->
            [s EXCEPT !.nodes[field].cmp = "fixed", !.nodes[field].fixed = fixed]
      [] order = "first" ->
            [s EXCEPT !.nodes[field].cmp = "first", !.nodes[field].hasOrder = TRUE,
                      !.nodes[field].order = NoOrder]
      [] OTHER -> [s EXCEPT !.nodes[field].cmp = order]

\* field.cmp(a, b)
FieldCmp(node, a, b) ==
    CASE node.cmp = "fixed" -> MapGet(fixedMap(node.fixed), a) - MapGet(fixedMap(node.fixed), b)
      [] node.cmp = "first" -> MapGet(node.order, a) - MapGet(node.order, b)
      [] node.cmp = "alpha" -> cmpAlpha(a, b)
      [] node.cmp = "num" -> cmpNum(a, b)

\* Schema.AddValues: the Schema it leaves.  (Called once per Schema.)
AddValues(s) ==
    LET a == addField(s, RootField, S_unit)
    IN  [a.s EXCEPT !.nodes[a.field].cmp = "first", !.nodes[a.field].hasOrder = TRUE,
                    !.nodes[a.field].order = NoOrder, !.unitField = a.field]

\* The .config closure of makeProjection, the k-th of s.project, from the
\* i-th entry of r.FileConfig on.  configKeys are the parser's at this moment.
RECURSIVE projectConfig(_, _, _, _, _)
projectConfig(s, configKeys, r, k, i) ==
    IF i > Len(r.FileConfig) THEN s
    ELSE LET cfg == r.FileConfig[i]
             cl == s.project[k]
             a == addField(s, cl.group, cfg.Key)
             grown == [initField(a.s, a.field, cl.order, cl.fixed)
                          EXCEPT !.project[k].seen = (cfg.Key :> a.field) @@ @]
         IN  IF cfg.Key \in DOMAIN cl.seen
             THEN projectConfig(setRow(s, cl.seen[cfg.Key], cfg.Value), configKeys, r, k, i + 1)
             ELSE IF cfg.Key \in configKeys
             THEN projectConfig(s, configKeys, r, k, i + 1)
             ELSE projectConfig(setRow(grown, a.field, cfg.Value), configKeys, r, k, i + 1)

\* The parser as a .fullname closure leaves it: fullExtractor is built on
\* first use from the fullnameKeys of that moment.
withFullExtractor(p) ==
    IF p.fullExtractor.set THEN p
    ELSE [p EXCEPT !.fullExtractor = [set |-> TRUE, ext |-> newExtractorFullName(p.fullnameKeys)]]

\* One projection function of s.project, the k-th, applied to r, where st is
\* the pair [s, p] of the Schema and the parser: the pair it leaves.
runProject(st, r, k) ==
    CASE st.s.project[k].kind = "config" ->
            [st EXCEPT !.s = projectConfig(@, st.p.configKeys, r, k, 1)]
      [] st.s.project[k].kind = "fullname" ->
            [s |-> setRow(st.s, st.s.project[k].field,
                          Extract(withFullExtractor(st.p).fullExtractor.ext, r)),
             p |-> withFullExtractor(st.p)]
      [] st.s.project[k].kind = "key" ->
            [st EXCEPT !.s = setRow(@, st.s.project[k].field, Extract(st.s.project[k].ext, r))]

\* The loop of Schema.populateRow over s.project, from the k-th on.
RECURSIVE runProjects(_, _, _)
runProjects(st, r, k) ==
    IF k > Len(st.s.project) THEN st ELSE runProjects(runProject(st, r, k), r, k + 1)

\* Schema.populateRow: [s, p].
populateRow(s, p, r) ==
    runProjects([s |-> [s EXCEPT !.row = [i \in 1..Len(s.row) |-> <<>>]], p |-> p], r, 1)

\* The trimming loop of internRow.
RECURSIVE trimRow(_)
trimRow(row) ==
    IF Len(row) > 0 /\ row[Len(row)] = <<>> THEN trimRow(SubSeq(row, 1, Len(row) - 1))
    ELSE row

RECURSIVE SumCodes(_)
SumCodes(b) == IF b = <<>> THEN 0 ELSE Code[Head(b)] + SumCodes(Tail(b))

\* The maphash of the row: a function of the bytes written, which are the
\* values one after the other with nothing between them.
hashRow(row) == SumCodes(Concat(row)) % HashBuckets

\* A variant of equalRow that trusts the hash for the length: it compares the
\* positions the two have in common.
equalRowCommon(vals, row) ==
    \A i \in 1..Min(Len(vals), Len(row)) : row[i] = vals[i]

\* configNode.equalRow
equalRow(vals, row) ==
    Len(vals) = Len(row) /\ \A i \in 1..Len(vals) : row[i] = vals[i]

\* The values a configNode holds: its own copy, or (for a node built without
\* copying) whatever the row buffer it shares holds now.
nodeVals(s, n) == IF n.shared THEN SubSeq(s.row, 1, Min(n.len, Len(s.row))) ELSE n.vals

\* A variant of newConfigNode that keeps the slice of the row buffer:
\* &configNode{s, row}
newConfigNodeAliased(row) == [vals |-> row, len |-> Len(row), shared |-> TRUE]

\* &configNode{s, append([]string(nil), row...)}
newConfigNode(row) == [vals |-> row, len |-> Len(row), shared |-> FALSE]

\* The value a row or tuple holds for a node: "" beyond its end.
valueOf(node, a) == IF node.idx < Len(a) THEN a[node.idx + 1] ELSE <<>>

\* The "update observation orders" loop of internRow over flat, from the
\* k-th field on.
RECURSIVE updateOrders(_, _, _, _)
updateOrders(s, flat, row, k) ==
    IF k > Len(flat) THEN s
    ELSE IF \/ ~s.nodes[flat[k]].hasOrder
            \/ valueOf(s.nodes[flat[k]], row) \in DOMAIN s.nodes[flat[k]].order
    THEN updateOrders(s, flat, row, k + 1)
    ELSE updateOrders([s EXCEPT !.nodes[flat[k]].order =
                                    (valueOf(s.nodes[flat[k]], row) :> Cardinality(DOMAIN @)) @@ @],
                      flat, row, k + 1)

\* The bucket s.configs[hash].
bucket(s, hash) == IF hash \in DOMAIN s.configs THEN s.configs[hash] ELSE <<>>

\* internRow, "save the config": the Schema with the new configNode.
saveConfig(s, row, hash) ==
    [s EXCEPT !.cnodes = Append(@, newConfigNode(row)),
              !.configs = (hash :> Append(bucket(s, hash), Len(s.cnodes) + 1)) @@ @]

\* internRow, "update observation orders", on the Schema that s.Fields() left.
observe(s, row) == updateOrders(s, Fields(s), row, 1)

\* internRow once the row is trimmed and hashed: [s, config].
internHashed(s, row, hash) ==
    LET configs == bucket(s, hash)
        hits == {i \in 1..Len(configs) : equalRow(nodeVals(s, s.cnodes[configs[i]]), row)}
    IN  IF hits # {} THEN [s |-> s, config |-> configs[SetMin(hits)]]
        ELSE [s |-> saveConfig(observe(cacheFields(s), row), row, hash),
              config |-> Len(s.cnodes) + 1]

\* internRow once the row is trimmed: [s, config].
internTrimmed(s, row) == internHashed(s, row, hashRow(row))

\* Schema.internRow: [s, config].
internRow(s) == internTrimmed(s, trimRow(s.row))

\* A variant of a round of the loop that puts the Config first.
collectFirst(got, out) == [s |-> got.s, out |-> <<got.config>> \o out.out]

\* One round of the loop of Schema.ProjectValues: out with the Config that
\* internRow returned appended, and the Schema it left.
collect(got, out) == [s |-> got.s, out |-> Append(out.out, got.config)]

\* The loop of Schema.ProjectValues over r.Values, from the i-th on:
\* [s, out].
RECURSIVE internUnits(_, _, _)
internUnits(acc, units, i) ==
    IF i > Len(units) THEN acc
    ELSE internUnits(
             collect(internRow([acc.s EXCEPT
                                   !.row[acc.s.nodes[acc.s.unitField].idx + 1] = units[i]]),
                     acc),
             units, i + 1)

\* Config.Get (for a Config and a Field of the same Schema)
Get(s, c, f) ==
    LET vals == nodeVals(s, s.cnodes[c])
        idx == s.nodes[f].idx
    IN  IF idx >= Len(vals) THEN <<>> ELSE vals[idx + 1]

\* A variant of the verdict of less without the secondary comparison.
verdictByCmp(cmp, aa, bb) == cmp < 0

\* The verdict of less on two different values, cmp being node.cmp(aa, bb).
verdict(cmp, aa, bb) == IF cmp # 0 THEN cmp < 0 ELSE StrLess(aa, bb)

\* less(flat, a, b), from the k-th field of flat on
RECURSIVE lessFrom(_, _, _, _, _)
lessFrom(s, flat, a, b, k) ==
    IF k > Len(flat) THEN FALSE
    ELSE IF valueOf(s.nodes[flat[k]], a) # valueOf(s.nodes[flat[k]], b)
    THEN verdict(FieldCmp(s.nodes[flat[k]], valueOf(s.nodes[flat[k]], a),
                          valueOf(s.nodes[flat[k]], b)),
                 valueOf(s.nodes[flat[k]], a), valueOf(s.nodes[flat[k]], b))
    ELSE lessFrom(s, flat, a, b, k + 1)

\* less
less(s, flat, a, b) == lessFrom(s, flat, a, b, 1)

\* Config.Less (for two Configs of the same Schema)
Less(s, c, o) == less(s, Fields(s), nodeVals(s, s.cnodes[c]), nodeVals(s, s.cnodes[o]))

----------------------------------------------------------------------------
(* Filters.  A filterFn is a record; "fixed" terms are the closures that   *)
(* makeProjection builds, "all" and "match" the filters NewFilter parses   *)
(* from "*" and "key:value", and "and" the result of filterOp(OpAnd, ..).  *)

FilterFn(kind, ext, fixed, subs) ==
    [kind |-> kind, ext |-> ext, fixed |-> fixed, subs |-> subs]

\* A variant of the fixed filter that looks up only the first listed value.
fixedFilterFirst(ext, fixed) == FilterFn("fixed", ext, SubSeq(fixed, 1, 1), <<>>)

\* makeFilter of makeProjection, for a fixed order: the closure over ext and
\* fixedMap.
fixedFilter(ext, fixed) == FilterFn("fixed", ext, fixed, <<>>)

\* filterOp(parse.OpAnd, parts)
filterOp(parts) == FilterFn("and", extractFullFn, <<>>, parts)

\* The filter of makeFilter: _, ok := fixedMap[string(ext(res))]
fixedAccepts(fn, res) == Extract(fn.ext, res) \in DOMAIN fixedMap(fn.fixed)

\* Calling a filterFn on a Result: whether it accepts it.
RECURSIVE Match(_, _)
Match(fn, res) ==
    CASE fn.kind = "all" -> TRUE
      [] fn.kind = "match" -> Extract(fn.ext, res) = fn.fixed[1]
      [] fn.kind = "fixed" -> fixedAccepts(fn, res)
      [] fn.kind = "and" -> \A i \in 1..Len(fn.subs) : Match(fn.subs[i], res)

----------------------------------------------------------------------------
(* ProjectionParser.  A parse.Projection is a record [Key, Order, Fixed].  *)

\* The offsets are those of the key and the order in the expression; a
\* Projection that is not parsed from an expression has none.
Projection(key, order, fixed) ==
    [Key |-> key, Order |-> order, Fixed |-> fixed, KeyOff |-> 0, OrderOff |-> 0]

\* No error, and &parse.SyntaxError{q, off, msg}.  A message is the sequence
\* of its pieces: <<"unexpected", ")">> is  unexpected ")".
NoError == [set |-> FALSE, msg |-> <<>>, off |-> 0]

SyntaxError(off, msg) == [set |-> TRUE, msg |-> msg, off |-> off]

NoFilter == FilterFn("none", extractFullFn, <<>>, <<>>)

\* A projection function of s.project: the closure's captured variables.
Closure(kind, group, field, ext, order, fixed) ==
    [kind |-> kind, group |-> group, field |-> field, ext |-> ext,
     order |-> order, fixed |-> fixed, seen |-> [k \in {} |-> 0]]

\* ProjectionParser.makeProjection: [ok, p, s, filter, err]; filter is
\* NoFilter for a nil filterFn, and ok = FALSE is the error return.
makeProjection(p, s, proj) ==
    LET fail(q, err) == [ok |-> FALSE, p |-> q, s |-> s, filter |-> NoFilter, err |-> err]
        makeFilter(ext) ==
            IF proj.Order = "fixed" THEN fixedFilter(ext, proj.Fixed) ELSE NoFilter
        group == addGroup(s, RootField, S_config)
        full == addField(s, RootField, S_fullname)
        keyed == IF proj.Key = S_name \/ HasPrefix(proj.Key, <<"/">>)
                 THEN [p EXCEPT !.fullnameKeys = Append(@, proj.Key)]
                 ELSE [p EXCEPT !.configKeys = @ \cup {proj.Key}]
        ext == newExtractor(proj.Key)
        field == addField(s, RootField, proj.Key)
        with(a, cl) == [initField(a.s, a.field, proj.Order, proj.Fixed)
                           EXCEPT !.project = Append(@, cl)]
    IN  IF proj.Order \notin {"fixed", "first"} \cup builtinOrders
        THEN fail(p, SyntaxError(proj.OrderOff, <<"unknown order", proj.Order>>))
        ELSE IF proj.Key = S_config
        THEN IF proj.Order = "fixed"
             THEN fail(p, SyntaxError(proj.OrderOff, <<"fixed order not allowed for .config">>))
             ELSE [ok |-> TRUE, p |-> [p EXCEPT !.haveConfig = TRUE], err |-> NoError,
                   s |-> [group.s EXCEPT !.project =
                             Append(@, Closure("config", group.field, 0, extractFullFn,
                                               proj.Order, proj.Fixed))],
                   filter |-> NoFilter]
        ELSE IF proj.Key = S_fullname
        THEN [ok |-> TRUE, p |-> [p EXCEPT !.haveFullname = TRUE], err |-> NoError,
              s |-> with(full, Closure("fullname", 0, full.field, extractFullFn,
                                       proj.Order, proj.Fixed)),
              filter |-> makeFilter(extractFullFn)]
        ELSE IF ~ext.ok THEN fail(keyed, SyntaxError(proj.KeyOff, <<"key must not be empty">>))
        ELSE [ok |-> TRUE, p |-> keyed, err |-> NoError,
              s |-> with(field, Closure("key", 0, field.field, ext.ext,
                                        proj.Order, proj.Fixed)),
              filter |-> makeFilter(ext.ext)]

\* A variant of a round of the loop of Parse that goes on after an error.
parsedIgnoring(acc, m) ==
    [ok |-> TRUE, p |-> m.p, s |-> m.s, err |-> NoError,
     filterParts |-> IF m.filter # NoFilter THEN Append(acc.filterParts, m.filter)
                     ELSE acc.filterParts]

\* One round of the loop of Parse: acc = [ok, p, s, filterParts, err] so
\* far, m what makeProjection returned.
parsed(acc, m) ==
    IF ~m.ok THEN [ok |-> FALSE, p |-> m.p, s |-> acc.s, filterParts |-> <<>>, err |-> m.err]
    ELSE [ok |-> TRUE, p |-> m.p, s |-> m.s, err |-> NoError,
          filterParts |-> IF m.filter # NoFilter THEN Append(acc.filterParts, m.filter)
                          ELSE acc.filterParts]

\* The loop of Parse over parts, from the i-th on: [ok, p, s, filterParts].
RECURSIVE makeProjections(_, _, _)
makeProjections(acc, parts, i) ==
    IF i > Len(parts) \/ ~acc.ok THEN acc
    ELSE makeProjections(parsed(acc, makeProjection(acc.p, acc.s, parts[i])), parts, i + 1)

\* The end of Parse: the filter parts are added to the filter.
addFilterParts(m, match) ==
    [ok |-> m.ok, p |-> m.p, s |-> m.s, err |-> m.err,
     match |-> IF m.ok /\ Len(m.filterParts) > 0
               THEN filterOp(Append(m.filterParts, match))
               ELSE match]

\* A variant of Parse that, when it fails, has added the filter of the
\* first fixed-order part to the filter.  js are the indices of the
\* fixed-order parts that have a key.
eagerMatch(m, match, parts, js) ==
    [m EXCEPT !.match = IF ~m.ok /\ js # {}
                        THEN filterOp(<<fixedFilter(newExtractor(parts[SetMin(js)].Key).ext,
                                                    parts[SetMin(js)].Fixed), match>>)
                        ELSE @]

ParseEager(p, match, parts) ==
    eagerMatch(addFilterParts(makeProjections([ok |-> TRUE, p |-> p, s |-> newSchema,
                                               filterParts |-> <<>>, err |-> NoError],
                                              parts, 1),
                              match),
               match, parts,
               {k \in DOMAIN parts : parts[k].Order = "fixed" /\ Len(parts[k].Key) > 0})

\* ProjectionParser.Parse, given the parts that parse.ParseProjection
\* returned: [ok, p, s, match, err]; match is filter.match after the call.
Parse(p, match, parts) ==
    addFilterParts(makeProjections([ok |-> TRUE, p |-> p, s |-> newSchema,
                                    filterParts |-> <<>>, err |-> NoError], parts, 1),
                   match)

\* Residue: the .fullname step, on what the .config step left.
residueFullname(c) ==
    IF ~c.p.haveFullname
    THEN makeProjection(c.p, c.s, Projection(S_fullname, "first", <<>>))
    ELSE c

\* Residue: the .config step.
residueConfig(p) ==
    IF ~p.haveConfig
    THEN makeProjection(p, newSchema, Projection(S_config, "first", <<>>))
    ELSE [ok |-> TRUE, p |-> p, s |-> newSchema, filter |-> NoFilter, err |-> NoError]

\* ProjectionParser.Residue: [ok, p, s, filter], p the parser it leaves and s
\* the Schema it returns.
Residue(p) == residueFullname(residueConfig(p))

\* The zero ProjectionParser.
newParser ==
    [configKeys |-> {}, fullnameKeys |-> <<>>, haveConfig |-> FALSE,
     haveFullname |-> FALSE, fullExtractor |-> [set |-> FALSE, ext |-> extractFullFn]]

----------------------------------------------------------------------------
(* SortConfigs.  sort.Slice on a short slice is an insertion sort.         *)

\* A variant of the inner loop that moves data[j] down one place at most.
sinkDownOnce(s, flat, data, j) ==
    IF j > 1 /\ less(s, flat, nodeVals(s, s.cnodes[data[j]]), nodeVals(s, s.cnodes[data[j - 1]]))
    THEN [data EXCEPT ![j] = data[j - 1], ![j - 1] = data[j]]
    ELSE data

\* The inner loop of the insertion sort: data[j] moves down while it is less
\* than its predecessor.
RECURSIVE sinkDown(_, _, _, _)
sinkDown(s, flat, data, j) ==
    IF j > 1 /\ less(s, flat, nodeVals(s, s.cnodes[data[j]]), nodeVals(s, s.cnodes[data[j - 1]]))
    THEN sinkDown(s, flat, [data EXCEPT ![j] = data[j - 1], ![j - 1] = data[j]], j - 1)
    ELSE data

RECURSIVE insertionSort(_, _, _, _)
insertionSort(s, flat, data, i) ==
    IF i > Len(data) THEN data
    ELSE insertionSort(s, flat, sinkDown(s, flat, data, i), i + 1)

\* SortConfigs: the slice it leaves.
SortConfigs(s, configs) ==
    IF Len(configs) = 0 THEN configs ELSE insertionSort(s, Fields(s), configs, 2)

----------------------------------------------------------------------------
(* Headers and non-singular fields.  A slice of Configs is a sequence of   *)
(* Configs of one Schema; Start counts from 0 as in the code.              *)

ConfigHeader(field, start, len, value) ==
    [Field |-> field, Start |-> start, Len |-> len, Value |-> value]

\* A variant of the loop body that never looks at the parent: a node is
\* extended whenever the level's last node has the value.
extendAcross(level, fresh, i, start, val) ==
    IF Len(level) > 0 /\ val = level[Len(level)].Value
    THEN [level EXCEPT ![Len(level)].Len = @ + 1]
    ELSE Append(level, ConfigHeader(i, start, 1, val))

\* A variant of the loop body that starts a node for every Config.
extendAlways(level, fresh, i, start, val) == Append(level, ConfigHeader(i, start, 1, val))

\* The body of the loop over a parent's Configs: node is nil for the parent's
\* first Config (fresh), and the level's last node afterwards.
extend(level, fresh, i, start, val) ==
    IF ~fresh /\ val = level[Len(level)].Value
    THEN [level EXCEPT ![Len(level)].Len = @ + 1]
    ELSE Append(level, ConfigHeader(i, start, 1, val))

\* A variant of the loop that numbers a node's start within its parent:
\* &ConfigHeader{i, j, 1, val}
RECURSIVE subdivideLocal(_, _, _, _, _, _, _, _)
subdivideLocal(s, configs, i, field, parent, level, j, fresh) ==
    IF j >= parent.Len THEN level
    ELSE subdivideLocal(s, configs, i, field, parent,
                        extend(level, fresh, i, j, Get(s, configs[parent.Start + j + 1], field)),
                        j + 1, FALSE)

\* The loop over configs[parent.Start : parent.Start+parent.Len], from the
\* j-th Config of the parent on.
RECURSIVE subdivide(_, _, _, _, _, _, _, _)
subdivide(s, configs, i, field, parent, level, j, fresh) ==
    IF j >= parent.Len THEN level
    ELSE subdivide(s, configs, i, field, parent,
                   extend(level, fresh, i, parent.Start + j,
                          Get(s, configs[parent.Start + j + 1], field)),
                   j + 1, FALSE)

\* The loop over prevLevel, from its p-th node on.
RECURSIVE overParents(_, _, _, _, _, _, _)
overParents(s, configs, i, field, prevLevel, level, p) ==
    IF p > Len(prevLevel) THEN level
    ELSE overParents(s, configs, i, field, prevLevel,
                     subdivide(s, configs, i, field, prevLevel[p], level, 0, TRUE), p + 1)

RECURSIVE levelsFrom(_, _, _, _, _, _)
\* A level is complete: levels[i] = append(...) is done and prevLevel = levels[i]
nextLevel(s, configs, fields, levels, n, level) ==
    levelsFrom(s, configs, fields, level, Append(levels, level), n + 1)

\* The loop over fields, from the n-th field on (level n - 1).
levelsFrom(s, configs, fields, prevLevel, levels, n) ==
    IF n > Len(fields) THEN levels
    ELSE nextLevel(s, configs, fields, levels, n,
                   overParents(s, configs, n - 1, fields[n], prevLevel, <<>>, 1))

\* A variant of NewConfigHeader without the test for an empty slice.
NewConfigHeaderNoGuard(s, configs) ==
    levelsFrom(s, configs, Fields(s), <<ConfigHeader(-1, 0, Len(configs), <<>>)>>, <<>>, 1)

\* A variant of NewConfigHeader that returns the root span as the first
\* level.
NewConfigHeaderRooted(s, configs) ==
    IF Len(configs) = 0 THEN <<>>
    ELSE levelsFrom(s, configs, Fields(s), <<ConfigHeader(-1, 0, Len(configs), <<>>)>>,
                    <<<<ConfigHeader(-1, 0, Len(configs), <<>>)>>>>, 1)

\* NewConfigHeader: the levels it returns.
NewConfigHeader(s, configs) ==
    IF Len(configs) = 0 THEN <<>>
    ELSE levelsFrom(s, configs, Fields(s), <<ConfigHeader(-1, 0, Len(configs), <<>>)>>, <<>>, 1)

\* A variant of the inner loop that compares two values only when
\* both Configs are long enough to hold the field.
differsHeld(s, configs, f) ==
    \E k \in 2..Len(configs) :
        /\ s.nodes[f].idx < Len(nodeVals(s, s.cnodes[configs[k]]))
        /\ s.nodes[f].idx < Len(nodeVals(s, s.cnodes[configs[1]]))
        /\ Get(s, configs[k], f) # Get(s, configs[1], f)

\* The inner loop of NonSingularFields: some Config differs from the first
\* in field f.
differs(s, configs, f) ==
    \E k \in 2..Len(configs) : Get(s, configs[k], f) # Get(s, configs[1], f)

\* The loop of NonSingularFields over fields, from the n-th on.
RECURSIVE nonSingularFrom(_, _, _, _, _)
nonSingularFrom(s, configs, fields, out, n) ==
    IF n > Len(fields) THEN out
    ELSE nonSingularFrom(s, configs, fields,
                         IF differs(s, configs, fields[n]) THEN Append(out, fields[n]) ELSE out,
                         n + 1)

\* NonSingularFields: the fields it returns.
NonSingularFields(s, configs) ==
    IF Len(configs) <= 1 THEN <<>> ELSE nonSingularFrom(s, configs, Fields(s), <<>>, 1)

----------------------------------------------------------------------------
(* The filter parser.  An expression is the sequence of its tokens' texts; *)
(* a tokenizer is a position in it together with the first error reported, *)
(* and a token's offset is its position.  After an error the tokenizer is  *)
(* at the end, so every later token has kind "0".  A message is the        *)
(* sequence of its pieces: <<"unexpected", ")">> is  unexpected ")".        *)

Tokenizer(pos, err) == [pos |-> pos, err |-> err]

tok(kind, text, off) == [Kind |-> kind, Tok |-> text, Off |-> off]

\* The kind of a token in a key or a value position: AND and OR are
\* operators, /.../ is a regexp where a value is expected and a word
\* elsewhere.
kindOf(text, allowRegexp) ==
    CASE text = "\"@\"" -> "q"
      [] text = "AND" -> "A"
      [] text = "OR" -> "O"
      [] text \in {"(", ")", ":", "-", "*", "@", ","} -> text
      [] text = "/b/" -> IF allowRegexp THEN "r" ELSE "w"
      [] OTHER -> "w"

\* The text of a token: a quoted string is unquoted.
unquote(text) == IF text = "\"@\"" THEN "@" ELSE text

nextTok(q, toks, allowRegexp) ==
    IF toks.pos > Len(q) THEN tok("0", "", Len(q))
    ELSE tok(kindOf(q[toks.pos], allowRegexp), unquote(q[toks.pos]), toks.pos - 1)

\* tokenizer.key and tokenizer.value: the token, and the tokenizer after it.
keyTok(q, toks) == nextTok(q, toks, FALSE)

valueTok(q, toks) == nextTok(q, toks, TRUE)

after(q, toks) == IF toks.pos > Len(q) THEN toks ELSE Tokenizer(toks.pos + 1, toks.err)

\* tokenizer.error: the first error is kept, and the tokenizer moves to the
\* end.
tokError(q, toks, msg) ==
    Tokenizer(Len(q) + 1,
              IF toks.err.set THEN toks.err
              ELSE [set |-> TRUE, msg |-> msg, off |-> keyTok(q, toks).Off])

\* tokenizer.end: a token left over is an error.
tokEnd(q, toks) ==
    IF ~toks.err.set /\ keyTok(q, toks).Kind # "0" THEN tokError(q, toks, <<"unexpected", keyTok(q, toks).Tok>>)
    ELSE toks

\* Filters: &FilterOp{op, exprs}, &FilterMatch{key, regexp, lit, off}, nil.
FilterOp(op, exprs) == [Op |-> op, Exprs |-> exprs, Key |-> "", Lit |-> "", Regexp |-> "", Off |-> 0]

FilterMatch(key, regexp, lit, off) ==
    [Op |-> "match", Exprs |-> <<>>, Key |-> key, Lit |-> lit, Regexp |-> regexp, Off |-> off]

NilFilter == FilterOp("nil", <<>>)

\* What the parser's functions return.
Got(f, toks) == [f |-> f, toks |-> toks]

\* parser.error
parserError(q, toks, msg) == Got(NilFilter, tokError(q, toks, msg))

\* parser.mkMatch
mkMatch(off, key, val) ==
    IF val.Kind = "r" THEN FilterMatch(key, val.Tok, "", off) ELSE FilterMatch(key, "", val.Tok, off)

\* The end of expr and andExpr: a single term is returned as it is.
termsOf(op, terms, toks) ==
    IF Len(terms) = 1 THEN Got(terms[1], toks) ELSE Got(FilterOp(op, terms), toks)

RECURSIVE expr(_, _, _)
RECURSIVE andLoop(_, _, _)
RECURSIVE match(_, _)

\* The loop of key:(value ...), with the values matched so far.
RECURSIVE multiMatch(_, _, _, _)
multiMatch(q, key, terms, rest) ==
    CASE valueTok(q, rest).Kind \in {"w", "q", "r"} ->
            multiMatch(q, key, Append(terms, mkMatch(key.Off, key.Tok, valueTok(q, rest))),
                       after(q, rest))
      [] valueTok(q, rest).Kind = ")" ->
            IF Len(terms) = 0 THEN parserError(q, rest, <<"nothing to match">>)
            ELSE Got(FilterOp("OR", terms), after(q, rest))
      [] OTHER -> parserError(q, rest, <<"expected value">>)

\* parser.match after key ":", rest being the tokenizer at the value.
matchValue(q, start, key, rest) ==
    CASE valueTok(q, rest).Kind \in {"w", "q", "r"} ->
            Got(mkMatch(key.Off, key.Tok, valueTok(q, rest)), after(q, rest))
      [] valueTok(q, rest).Kind = "(" -> multiMatch(q, key, <<>>, after(q, rest))
      [] OTHER -> parserError(q, start, <<"expected key:value">>)

\* parser.match on "(": got is what expr returned.
matchParen(q, got) ==
    IF keyTok(q, got.toks).Kind # ")" THEN parserError(q, got.toks, <<"missing", ")">>)
    ELSE Got(got.f, after(q, got.toks))

\* parser.match on "-": got is what match returned.
matchNot(got) == Got(FilterOp("NOT", <<got.f>>), got.toks)

\* parser.match
match(q, start) ==
    CASE keyTok(q, start).Kind = "(" -> matchParen(q, expr(q, <<>>, after(q, start)))
      [] keyTok(q, start).Kind = "-" -> matchNot(match(q, after(q, start)))
      [] keyTok(q, start).Kind = "*" -> Got(FilterOp("AND", <<>>), after(q, start))
      [] keyTok(q, start).Kind \in {"w", "q"} ->
            IF keyTok(q, after(q, start)).Kind # ":"
            THEN parserError(q, start, <<"expected key:value">>)
            ELSE matchValue(q, start, keyTok(q, start), after(q, after(q, start)))
      [] OTHER -> parserError(q, start, <<"expected key:value or subexpression">>)

\* terms = append(terms, q) in andExpr, got being what match returned.
andMatched(q, terms, got) == andLoop(q, Append(terms, got.f), got.toks)

\* A variant of the loop of andExpr that skips an OR as it skips an AND.
andLoopOr(q, terms, toks) ==
    CASE keyTok(q, toks).Kind \in {"A", "O"} -> andLoop(q, terms, after(q, toks))
      [] keyTok(q, toks).Kind \in {"(", "-", "*", "w", "q"} -> andMatched(q, terms, match(q, toks))
      [] keyTok(q, toks).Kind \in {")", "0"} -> termsOf("AND", terms, toks)
      [] OTHER -> parserError(q, toks, <<"unexpected", keyTok(q, toks).Tok>>)

\* The loop of parser.andExpr.
andLoop(q, terms, toks) ==
    CASE keyTok(q, toks).Kind = "A" -> andLoop(q, terms, after(q, toks))
      [] keyTok(q, toks).Kind \in {"(", "-", "*", "w", "q"} -> andMatched(q, terms, match(q, toks))
      [] keyTok(q, toks).Kind \in {")", "O", "0"} -> termsOf("AND", terms, toks)
      [] OTHER -> parserError(q, toks, <<"unexpected", keyTok(q, toks).Tok>>)

\* parser.andExpr
andExpr(q, toks) == andMatched(q, <<>>, match(q, toks))

\* The loop of parser.expr after andExpr returned got.
orTerm(q, terms, got) ==
    IF keyTok(q, got.toks).Kind # "O" THEN termsOf("OR", Append(terms, got.f), got.toks)
    ELSE expr(q, Append(terms, got.f), after(q, got.toks))

\* parser.expr, with the terms collected so far.
expr(q, terms, toks) == orTerm(q, terms, andExpr(q, toks))

\* ParseFilter after expr returned got and toks.end() left the tokenizer
\* ended.
parsedFilter(got, ended) ==
    IF ended.err.set THEN Got(NilFilter, ended) ELSE Got(got.f, ended)

parseEnd(q, got) == parsedFilter(got, tokEnd(q, got.toks))

\* A variant of ParseFilter without the call of toks.end().
ParseFilterNoEnd(q) == parseEnd(<<>>, expr(q, <<>>, Tokenizer(1, NoError)))

\* ParseFilter: f is the Filter and toks.err the error.
ParseFilter(q) == parseEnd(q, expr(q, <<>>, Tokenizer(1, NoError)))

----------------------------------------------------------------------------
(* The projection parser, over the same tokenizer.  The words of an        *)
(* expression are texts; the Key and the Fixed values of a Projection are   *)
(* their characters, and its Order a text.                                 *)

Chars(text) == IF text = ".config" THEN S_config ELSE <<text>>

Text(chars) == IF chars = S_config THEN ".config" ELSE chars[1]

\* quoteWord: a bare word as it is, anything else as a quoted string.
quoteWord(text) == IF kindOf(text, FALSE) = "w" THEN text ELSE "\"" \o text \o "\""

\* The zero Projection.
NoProjection == [Key |-> <<>>, Order |-> "", Fixed |-> <<>>, KeyOff |-> 0, OrderOff |-> 0]

\* What parseProjection1 returns.
GotProjection(p, toks) == [p |-> p, toks |-> toks]

\* parseProjection1: the loop over the words of a parenthesized list.
RECURSIVE fixedLoop(_, _, _)
fixedLoop(q, p, toks) ==
    CASE keyTok(q, toks).Kind \in {"w", "q"} ->
            fixedLoop(q, [p EXCEPT !.Fixed = Append(@, Chars(keyTok(q, toks).Tok))], after(q, toks))
      [] keyTok(q, toks).Kind = ")" ->
            IF Len(p.Fixed) = 0 THEN GotProjection(p, tokError(q, toks, <<"nothing to match">>))
            ELSE GotProjection(p, after(q, toks))
      [] OTHER -> GotProjection(p, tokError(q, toks, <<"missing )">>))

\* parseProjection1 after "@", toks being the tokenizer at the order.
projectionOrder(q, p, toks) ==
    CASE keyTok(q, toks).Kind \in {"w", "q"} ->
            GotProjection([p EXCEPT !.OrderOff = keyTok(q, toks).Off,
                                    !.Order = keyTok(q, toks).Tok], after(q, toks))
      [] keyTok(q, toks).Kind = "(" ->
            fixedLoop(q, [p EXCEPT !.OrderOff = keyTok(q, toks).Off, !.Order = "fixed"],
                      after(q, toks))
      [] OTHER ->
            GotProjection([p EXCEPT !.OrderOff = keyTok(q, toks).Off],
                          tokError(q, toks, <<"expected named sort order or parenthesized list">>))

\* parseProjection1 after the key: an offset counts tokens, so the order of
\* a key without one is one past the key.
projectionKey(q, key, toks) ==
    IF keyTok(q, toks).Kind # "@"
    THEN GotProjection([NoProjection EXCEPT !.Key = Chars(key.Tok), !.KeyOff = key.Off,
                                            !.Order = "first", !.OrderOff = key.Off + 1], toks)
    ELSE projectionOrder(q, [NoProjection EXCEPT !.Key = Chars(key.Tok), !.KeyOff = key.Off,
                                                 !.Order = "first", !.OrderOff = key.Off + 1],
                         after(q, toks))

parseProjection1(q, toks) ==
    IF keyTok(q, toks).Kind \notin {"w", "q"}
    THEN GotProjection(NoProjection, tokError(q, toks, <<"expected key">>))
    ELSE projectionKey(q, keyTok(q, toks), after(q, toks))

\* The loop of ParseProjection, projs being the Projections so far.
RECURSIVE projectionLoop(_, _, _)
projectionParsed(q, projs, got) == projectionLoop(q, Append(projs, got.p), got.toks)

projectionLoop(q, projs, toks) ==
    CASE keyTok(q, toks).Kind = "0" -> [projs |-> projs, toks |-> toks]
      [] keyTok(q, toks).Kind = "," /\ Len(projs) > 0 ->
            projectionParsed(q, projs, parseProjection1(q, after(q, toks)))
      [] OTHER -> projectionParsed(q, projs, parseProjection1(q, toks))

\* The end of ParseProjection: [projs, err], with no Projections on an
\* error.
projectionEnd(got, ended) ==
    IF ended.err.set THEN [projs |-> <<>>, err |-> ended.err]
    ELSE [projs |-> got.projs, err |-> NoError]

projectionsOf(q, got) == projectionEnd(got, tokEnd(q, got.toks))

ParseProjection(q) == projectionsOf(q, projectionLoop(q, <<>>, Tokenizer(1, NoError)))

\* Projection.String, as the tokens of the expression it returns.
String(p) ==
    CASE p.Order = "first" -> <<quoteWord(Text(p.Key))>>
      [] p.Order = "fixed" ->
            <<quoteWord(Text(p.Key)), "@", "(">>
            \o [k \in 1..Len(p.Fixed) |-> quoteWord(Text(p.Fixed[k]))] \o <<")">>
      [] OTHER -> <<quoteWord(Text(p.Key)), "@", quoteWord(p.Order)>>

----------------------------------------------------------------------------
(* The calls a program makes, as actions.  The logs `calls`, `parses` and  *)
(* `sorted` record what each call was given and what it returned, and      *)
(* `read` what the last header or non-singular call did; no operation      *)
(* reads them.                                                             *)

NoSort == [schema |-> 0, before |-> <<>>, after |-> <<>>]

NoRead == [op |-> "none", schema |-> 0, configs |-> <<>>, levels |-> <<>>, out |-> <<>>]

\* Goroutines that read Configs concurrently.
NReaders == 2

\* A goroutine that is not in a read operation.  In one, pc says where it is
\* in Schema.Fields, todo holds the leaves its walk has yet to append and flat
\* the slice Fields returned to it.
NotReading == [pc |-> "idle", op |-> "none", schema |-> 0, todo |-> <<>>, flat |-> <<>>]

Idle == [p \in 1..NReaders |-> NotReading]

\* No filter expression yet.
NoQuery ==
    [toks |-> <<>>, written |-> 0, done |-> FALSE, f |-> <<>>, err |-> <<>>, part |-> 0,
     text |-> <<>>, projs |-> <<>>]

\* A call that is not one of the readers' leaves them where they are, and
\* clears the log of the last read.
NoReads == read' = NoRead /\ UNCHANGED <<readers, query>>

\* The state a Parse call leaves, got being what Parse returned.
Parsed(parts, got) ==
    /\ pp' = got.p
    /\ filter' = [filter EXCEPT !.match = got.match]
    /\ schemas' = IF got.ok THEN Append(schemas, got.s) ELSE schemas
    /\ parses' = Append(parses, [parts |-> parts, ok |-> got.ok, err |-> got.err,
                                 schema |-> IF got.ok THEN Len(schemas) + 1 ELSE 0,
                                 before |-> filter.match, after |-> got.match,
                                 session |-> pp, projected |-> Len(calls)])
    /\ sorted' = NoSort
    /\ NoReads
    /\ UNCHANGED calls

\* pp.Parse(proj, filter), where parts is what parse.ParseProjection(proj)
\* returned.
ParseCall(parts) == Parsed(parts, Parse(pp, filter.match, parts))

\* pp.Parse(proj, filter) on the text of an expression, got being what
\* parse.ParseProjection(proj) returned.
parseText(got) ==
    IF got.err.set
    THEN Parsed(<<>>, [ok |-> FALSE, p |-> pp, s |-> newSchema, match |-> filter.match,
                       err |-> got.err])
    ELSE ParseCall(got.projs)

ParseTextCall(q) == parseText(ParseProjection(q))

\* parts[k].String() for a Projection of the last expression parsed, and
\* parse.ParseProjection of the string, which returned got.
stringParsed(k, text, got) ==
    /\ query' = [query EXCEPT !.done = TRUE, !.part = k, !.text = text,
                              !.projs = got.projs, !.err = got.err]
    /\ UNCHANGED <<pp, filter, schemas, calls, parses, sorted, read, readers>>

stringText(k, text) == stringParsed(k, text, ParseProjection(text))

StringCall(k) == stringText(k, String(parses[Len(parses)].parts[k]))

\* The state a Residue call leaves, got being what Residue returned.
Residued(got) ==
    /\ pp' = got.p
    /\ schemas' = Append(schemas, got.s)
    /\ sorted' = NoSort
    /\ NoReads
    /\ UNCHANGED <<filter, calls, parses>>

\* pp.Residue()
ResidueCall == Residued(Residue(pp))

\* schemas[i].AddValues()
AddValuesCall(i) ==
    /\ schemas[i].unitField = 0
    /\ schemas' = [schemas EXCEPT ![i] = AddValues(@)]
    /\ sorted' = NoSort
    /\ NoReads
    /\ UNCHANGED <<pp, filter, calls, parses>>

\* The state a Project or ProjectValues call on schemas[i] leaves: s and p are
\* the Schema and the parser after it, rows the rows it interned and out the
\* Configs it returned.
Projected(i, r, values, s, p, rows, out) ==
    /\ schemas' = [schemas EXCEPT ![i] = s]
    /\ pp' = p
    /\ calls' = Append(calls, [schema |-> i, res |-> r, values |-> values,
                               rows |-> rows, out |-> out, unit |-> s.unitField,
                               accepted |-> Match(filter.match, r),
                               parsed |-> Len(parses)])
    /\ sorted' = NoSort
    /\ NoReads
    /\ UNCHANGED <<filter, parses>>

\* Schema.Project after populateRow, pop being what populateRow left.
projectRow(i, r, pop, got) == Projected(i, r, FALSE, got.s, pop.p, <<pop.s.row>>, <<got.config>>)

projectPopulated(i, r, pop) == projectRow(i, r, pop, internRow(pop.s))

\* schemas[i].Project(r)
ProjectCall(i, r) == projectPopulated(i, r, populateRow(schemas[i], pp, r))

\* Schema.ProjectValues after populateRow, without a .unit field.
projectSame(i, r, pop, got) ==
    Projected(i, r, TRUE, got.s, pop.p,
              [k \in 1..Len(r.Units) |-> pop.s.row],
              [k \in 1..Len(r.Units) |-> got.config])

\* Schema.ProjectValues after populateRow, with a .unit field.
projectVaried(i, r, pop, vary) ==
    Projected(i, r, TRUE, vary.s, pop.p,
              [k \in 1..Len(r.Units) |->
                  [pop.s.row EXCEPT ![pop.s.nodes[pop.s.unitField].idx + 1] = r.Units[k]]],
              vary.out)

valuesPopulated(i, r, pop) ==
    IF pop.s.unitField = 0 THEN projectSame(i, r, pop, internRow(pop.s))
    ELSE projectVaried(i, r, pop, internUnits([s |-> pop.s, out |-> <<>>], r.Units, 1))

\* schemas[i].ProjectValues(r)
ProjectValuesCall(i, r) == valuesPopulated(i, r, populateRow(schemas[i], pp, r))

\* SortConfigs(configs) on a slice of Configs of schemas[i]
SortCall(i, configs) ==
    /\ sorted' = [schema |-> i, before |-> configs, after |-> SortConfigs(schemas[i], configs)]
    /\ schemas' = IF Len(configs) = 0 THEN schemas ELSE [schemas EXCEPT ![i] = cacheFields(@)]
    /\ NoReads
    /\ UNCHANGED <<pp, filter, calls, parses>>

\* NewConfigHeader(configs) on a slice of Configs of schemas[i]
HeaderCall(i, configs) ==
    /\ read' = [op |-> "header", schema |-> i, configs |-> configs,
                levels |-> NewConfigHeader(schemas[i], configs), out |-> <<>>]
    /\ schemas' = IF Len(configs) = 0 THEN schemas ELSE [schemas EXCEPT ![i] = cacheFields(@)]
    /\ sorted' = NoSort
    /\ UNCHANGED <<pp, filter, calls, parses, readers, query>>

\* NonSingularFields(configs) on a slice of Configs of schemas[i]
NonSingularCall(i, configs) ==
    /\ read' = [op |-> "nonsingular", schema |-> i, configs |-> configs,
                levels |-> <<>>, out |-> NonSingularFields(schemas[i], configs)]
    /\ schemas' = IF Len(configs) <= 1 THEN schemas ELSE [schemas EXCEPT ![i] = cacheFields(@)]
    /\ sorted' = NoSort
    /\ UNCHANGED <<pp, filter, calls, parses, readers, query>>

----------------------------------------------------------------------------
(* The inputs of the model.                                                *)

K_a == <<"a">>
K_b == <<"b">>
V_1 == <<"1">>
V_2 == <<"2">>
V_1p0 == <<"1", ".", "0">>
V_x == <<"x">>
V_y == <<"y">>
V_z == <<"z">>
V_1x == <<"1", "x">>
U_u == <<"u">>
U_v == <<"v">>

Result(name, fileConfig, units) ==
    [Name |-> name,
     FileConfig |-> [i \in 1..Len(fileConfig) |->
                        [Key |-> fileConfig[i][1], Value |-> fileConfig[i][2]]],
     Units |-> units]

\* Projection expressions given to Parse, as their parts:
\*   .config,a    a@num,b@(y x)    a@alpha,b    b,.config@alpha
ProjMenu ==
    { <<Projection(S_config, "first", <<>>), Projection(K_a, "first", <<>>)>>,
      <<Projection(K_a, "num", <<>>), Projection(K_b, "fixed", <<V_y, V_x>>)>>,
      <<Projection(K_a, "alpha", <<>>), Projection(K_b, "first", <<>>)>>,
      <<Projection(K_b, "first", <<>>), Projection(S_config, "alpha", <<>>)>> }

\* Results given to Project and ProjectValues.
Results ==
    { Result(<<"N">>, <<<<K_a, V_1>>>>, <<U_u, U_v>>),
      Result(<<"N">>, <<<<K_a, V_1>>, <<K_b, V_x>>>>, <<U_u>>),
      Result(<<"N">>, <<<<K_a, V_2>>>>, <<>>),
      Result(<<"N">>, <<<<K_a, V_1p0>>, <<K_b, V_y>>>>, <<U_u>>),
      Result(<<"N">>, <<<<K_b, V_z>>, <<K_a, V_1x>>>>, <<U_v>>) }

\* The filter NewFilter("*") returns.
filterAll == [match |-> FilterFn("all", extractFullFn, <<>>, <<>>)]

----------------------------------------------------------------------------
(* Spec: the life of one Schema.  One Parse builds it; then AddValues,     *)
(* Project and ProjectValues are called on it in any order.                *)

\* AddValues, Project and ProjectValues calls on the Schema.
MaxCalls == 3

Init ==
    /\ pp = newParser
    /\ filter = filterAll
    /\ schemas = <<>>
    /\ calls = <<>>
    /\ parses = <<>>
    /\ sorted = NoSort
    /\ read = NoRead
    /\ readers = Idle
    /\ query = NoQuery

\* Calls on the Schema so far: an AddValues shows as the .unit field.
nCalls(i) == Len(calls) + (IF schemas[i].unitField # 0 THEN 1 ELSE 0)

DoParse == \E parts \in ProjMenu : Len(parses) = 0 /\ ParseCall(parts)

DoAddValues == \E i \in 1..Len(schemas) : nCalls(i) < MaxCalls /\ AddValuesCall(i)

DoProject == \E i \in 1..Len(schemas), r \in Results : nCalls(i) < MaxCalls /\ ProjectCall(i, r)

DoProjectValues ==
    \E i \in 1..Len(schemas), r \in Results : nCalls(i) < MaxCalls /\ ProjectValuesCall(i, r)

Next == DoParse \/ DoAddValues \/ DoProject \/ DoProjectValues

Spec == Init /\ [][Next]_vars

----------------------------------------------------------------------------
(* Properties of one Schema, under Spec.                                   *)

\* The Configs a Schema has produced.
Configs(s) == 1..Len(s.cnodes)

\* The leaf fields of a Schema, and its group nodes: the root and the group of
\* every .config projection.
Leaves(s) == {f \in 1..Len(s.nodes) : s.nodes[f].idx # -1}

Groups(s) ==
    {RootField} \cup {s.project[k].group : k \in {j \in DOMAIN s.project : s.project[j].kind = "config"}}

\* The Configs the calls on schema i returned, each with the row it was
\* interned from: pairs <<call, position>>.
Outputs(i) ==
    UNION {{<<k, j>> : j \in 1..Len(calls[k].out)} : k \in {n \in 1..Len(calls) : calls[n].schema = i}}

\* C1: two Configs returned by Project/ProjectValues calls on one Schema are
\* the same interned node if and only if the rows they were interned from are
\* equal once trailing empty values are trimmed.
C1_Interning ==
    \A i \in DOMAIN schemas : \A x, y \in Outputs(i) :
        (calls[x[1]].out[x[2]] = calls[y[1]].out[y[2]])
            <=> (trimRow(calls[x[1]].rows[x[2]]) = trimRow(calls[y[1]].rows[y[2]]))

\* C1's case: one Config returned for two rows of different lengths (the
\* Schema grew in between), and two Configs whose rows have the same hash.
C1_Witness ==
    \E i \in DOMAIN schemas : \E x, y, z \in Outputs(i) :
        /\ calls[x[1]].out[x[2]] = calls[y[1]].out[y[2]]
        /\ Len(calls[x[1]].rows[x[2]]) < Len(calls[y[1]].rows[y[2]])
        /\ calls[x[1]].out[x[2]] # calls[z[1]].out[z[2]]
        /\ hashRow(trimRow(calls[x[1]].rows[x[2]])) = hashRow(trimRow(calls[z[1]].rows[z[2]]))

\* The step is a Project call.
IsProject == Len(calls') = Len(calls) + 1 /\ ~calls'[Len(calls')].values

\* C2: for two Configs a Schema has produced, c1.Less(c2) is the same before
\* and after any later Project call on that Schema.
C2_LessStable ==
    [][IsProject =>
         \A i \in DOMAIN schemas : \A c1, c2 \in Configs(schemas[i]) :
             Less(schemas'[i], c1, c2) = Less(schemas[i], c1, c2)]_vars

C4_State ==
    \A i \in DOMAIN schemas :
        /\ Cardinality(Leaves(schemas[i])) = schemas[i].nFields
        /\ \A f \in Leaves(schemas[i]) :
               schemas[i].nodes[f].idx = Cardinality({g \in Leaves(schemas[i]) : g < f})
        /\ \A g \in Groups(schemas[i]) : schemas[i].nodes[g].idx = -1
        /\ Len(schemas[i].row) = schemas[i].nFields

\* The step part of C4: no step changes the index of a node.
C4_Step ==
    \A i \in DOMAIN schemas : \A f \in 1..Len(schemas[i].nodes) :
        schemas'[i].nodes[f].idx = schemas[i].nodes[f].idx

\* C4: the storage indices of the leaf fields are 0..nFields-1 in order of
\* creation whatever their place in the tree, never change, group nodes have
\* index -1, and the row buffer has length nFields.
C4_Indices == []C4_State /\ [][C4_Step]_vars

\* C4's case: a Schema whose tree order is not the order of creation (a group
\* got a field after a later sibling existed).
C4_Witness ==
    \E i \in DOMAIN schemas : \E k \in 1..(Len(Fields(schemas[i])) - 1) :
        schemas[i].nodes[Fields(schemas[i])[k]].idx > schemas[i].nodes[Fields(schemas[i])[k + 1]].idx

\* C5: Less on the Configs of one Schema is a strict total order.
C5_StrictTotal ==
    \A i \in DOMAIN schemas : \A a, b \in Configs(schemas[i]) :
        /\ a = b => ~Less(schemas[i], a, b)
        /\ a # b => (Less(schemas[i], a, b) # Less(schemas[i], b, a))
        /\ \A c \in Configs(schemas[i]) :
               Less(schemas[i], a, b) /\ Less(schemas[i], b, c) => Less(schemas[i], a, c)

\* C5's case: three Configs of which two are tied under the comparator of a
\* num field, and two under that of a fixed field.
C5_Witness ==
    \E i \in DOMAIN schemas : \E a, b, c \in Configs(schemas[i]) :
        /\ a # b /\ b # c /\ a # c
        /\ \E f \in Leaves(schemas[i]) :
               /\ schemas[i].nodes[f].cmp = "num"
               /\ Get(schemas[i], a, f) # Get(schemas[i], b, f)
               /\ FieldCmp(schemas[i].nodes[f], Get(schemas[i], a, f), Get(schemas[i], b, f)) = 0
        /\ \E f \in Leaves(schemas[i]) :
               /\ schemas[i].nodes[f].cmp = "fixed"
               /\ Get(schemas[i], b, f) # Get(schemas[i], c, f)
               /\ FieldCmp(schemas[i].nodes[f], Get(schemas[i], b, f), Get(schemas[i], c, f)) = 0

\* The first Config of s that holds u in field f.
firstHolding(s, f, u) == SetMin({c \in Configs(s) : Get(s, c, f) = u})

\* Whether s sorts the value u of field f before the different value v.
sortsBefore(s, f, u, v) == verdict(FieldCmp(s.nodes[f], u, v), u, v)

\* C7: in a field of first order, u sorts before a different value v exactly
\* when the first Config holding u was created before the first holding v.
C7_FirstOrder ==
    \A i \in DOMAIN schemas : \A f \in Leaves(schemas[i]) :
        schemas[i].nodes[f].cmp = "first" =>
            \A c, d \in Configs(schemas[i]) :
                Get(schemas[i], c, f) # Get(schemas[i], d, f) =>
                    (sortsBefore(schemas[i], f, Get(schemas[i], c, f), Get(schemas[i], d, f))
                        <=> firstHolding(schemas[i], f, Get(schemas[i], c, f))
                                < firstHolding(schemas[i], f, Get(schemas[i], d, f)))

\* The last call was ProjectValues, and nothing was done to its Schema
\* since.
ValuesReturned ==
    /\ Len(calls) > 0
    /\ calls[Len(calls)].values
    /\ schemas[calls[Len(calls)].schema].unitField = calls[Len(calls)].unit

\* The Config Project(r) returns when it is called on s next.
ProjectOf(s, r) == internRow(populateRow(s, pp, r).s).config

\* What C26 says of a ProjectValues call on s that was given r and returned
\* out.
ValuesOf(s, r, out) ==
    /\ Len(out) = Len(r.Units)
    /\ s.unitField # 0 =>
           /\ \A k \in DOMAIN out : Get(s, out[k], s.unitField) = r.Units[k]
           /\ \A j, k \in DOMAIN out : \A f \in Leaves(s) \ {s.unitField} :
                  Get(s, out[j], f) = Get(s, out[k], f)
    /\ s.unitField = 0 => \A k \in DOMAIN out : out[k] = ProjectOf(s, r)

\* C26: ProjectValues(r) returns len(r.Values) Configs in the order of the
\* measurements; with a .unit field the i-th holds the i-th unit in .unit
\* and all agree on every other field; without one, every one of them is
\* the Config that Project(r) returns.
C26_ProjectValues ==
    ValuesReturned =>
        ValuesOf(schemas[calls[Len(calls)].schema], calls[Len(calls)].res, calls[Len(calls)].out)

\* ProjectValues returned two different Configs for a record with two
\* measurements and a file key.
C26_Witness ==
    /\ ValuesReturned
    /\ calls[Len(calls)].unit # 0
    /\ Len(calls[Len(calls)].out) = 2
    /\ calls[Len(calls)].out[1] # calls[Len(calls)].out[2]
    /\ Cardinality(Leaves(schemas[calls[Len(calls)].schema])) > 1

----------------------------------------------------------------------------
(* SortSpec: one Schema, Project calls on it, and SortConfigs on slices of *)
(* the Configs it has produced.                                            *)

\* Project calls on the Schema.
MaxSortProjects == 3

\* Length of the slice handed to SortConfigs.
MaxSort == 3

\* Projection expressions:   a@num,b   .config@alpha
SortMenu ==
    { <<Projection(K_a, "num", <<>>), Projection(K_b, "first", <<>>)>>,
      <<Projection(S_config, "alpha", <<>>)>> }

SortResults ==
    { Result(<<"N">>, <<<<K_a, V_1>>>>, <<>>),
      Result(<<"N">>, <<<<K_a, V_1p0>>, <<K_b, V_y>>>>, <<>>),
      Result(<<"N">>, <<<<K_b, V_x>>, <<K_a, V_1>>>>, <<>>) }

\* The slices of at most MaxSort Configs of s.
Slices(s) == UNION {[1..n -> Configs(s)] : n \in 0..MaxSort}

SortParse == \E parts \in SortMenu : Len(parses) = 0 /\ ParseCall(parts)

SortProject ==
    \E i \in 1..Len(schemas), r \in SortResults : Len(calls) < MaxSortProjects /\ ProjectCall(i, r)

\* The log holds one SortConfigs call: the next one is made after a Project
\* call has cleared it.
DoSort ==
    \E i \in 1..Len(schemas) : \E configs \in Slices(schemas[i]) :
        sorted = NoSort /\ SortCall(i, configs)

SortNext == SortParse \/ SortProject \/ DoSort

SortSpec == Init /\ [][SortNext]_vars

\* How often c occurs in the slice.
Count(configs, c) == Cardinality({k \in 1..Len(configs) : configs[k] = c})

\* The slice in the order p, a permutation of its positions.
Reordered(configs, p) == [k \in 1..Len(configs) |-> configs[p[k]]]

\* C6: SortConfigs leaves a permutation of the slice it was given, in which
\* no element is Less than an earlier one, and which is the same for every
\* order the same Configs could have been given in.
C6_Sort ==
    sorted.schema # 0 =>
        /\ Len(sorted.after) = Len(sorted.before)
        /\ \A c \in Configs(schemas[sorted.schema]) :
               Count(sorted.after, c) = Count(sorted.before, c)
        /\ \A j, k \in 1..Len(sorted.after) :
               j < k => ~Less(schemas[sorted.schema], sorted.after[k], sorted.after[j])
        /\ \A p \in Permutations(1..Len(sorted.before)) :
               SortConfigs(schemas[sorted.schema], Reordered(sorted.before, p)) = sorted.after

\* C6's case: a slice of three different Configs was sorted that came in the
\* opposite order, two of them equal under the comparator of a num field.
C6_Witness ==
    /\ sorted.schema # 0
    /\ Len(sorted.before) = 3
    /\ sorted.after = <<sorted.before[3], sorted.before[2], sorted.before[1]>>
    /\ sorted.after[1] # sorted.after[2] /\ sorted.after[2] # sorted.after[3]
    /\ \E f \in Leaves(schemas[sorted.schema]) : \E j \in 1..2 :
           /\ schemas[sorted.schema].nodes[f].cmp = "num"
           /\ Get(schemas[sorted.schema], sorted.after[j], f)
                  # Get(schemas[sorted.schema], sorted.after[j + 1], f)
           /\ FieldCmp(schemas[sorted.schema].nodes[f],
                       Get(schemas[sorted.schema], sorted.after[j], f),
                       Get(schemas[sorted.schema], sorted.after[j + 1], f)) = 0

----------------------------------------------------------------------------
(* SessionSpec: a parsing session.  Parse and Residue are called on one    *)
(* ProjectionParser and one Filter, and records are projected through the  *)
(* Schemas they return, in any order.                                      *)

\* Parse, Residue and Project calls in the session.
MaxSession == 3

K_sub == <<"/", "a">>
N_a1 == <<"N", "/", "a", "=", "1">>
N_a2p8 == <<"N", "/", "a", "=", "2", "-", "8">>

\* Projection expressions:
\*   .config    a@("" 1)    .fullname@(N/a=1 N),b    /a@(1),.name
\*   /gomaxprocs,.fullname@alpha    b,.config@(x)
SessionMenu ==
    { <<Projection(S_config, "first", <<>>)>>,
      <<Projection(K_a, "fixed", <<<<>>, V_1>>)>>,
      <<Projection(S_fullname, "fixed", <<N_a1, <<"N">>>>), Projection(K_b, "first", <<>>)>>,
      <<Projection(K_sub, "fixed", <<V_1>>), Projection(S_name, "first", <<>>)>>,
      <<Projection(S_gomaxprocs, "first", <<>>), Projection(S_fullname, "alpha", <<>>)>>,
      <<Projection(K_b, "first", <<>>), Projection(S_config, "fixed", <<V_x>>)>> }

SessionResults ==
    { Result(N_a1, <<<<K_a, V_1>>, <<K_b, V_x>>>>, <<>>),
      Result(N_a2p8, <<<<K_b, V_x>>>>, <<>>),
      Result(<<"N">>, <<<<K_a, V_2>>>>, <<>>) }

\* The filters NewFilter returns for "*" and for "b:x".
SessionFilters ==
    { filterAll, [match |-> FilterFn("match", newExtractor(K_b).ext, <<V_x>>, <<>>)] }

SessionInit ==
    /\ pp = newParser
    /\ filter \in SessionFilters
    /\ schemas = <<>>
    /\ calls = <<>>
    /\ parses = <<>>
    /\ sorted = NoSort
    /\ read = NoRead
    /\ readers = Idle
    /\ query = NoQuery

\* The Schemas that Residue returned.
Residues == {i \in DOMAIN schemas : \A k \in DOMAIN parses : parses[k].schema # i}

\* The calls made in the session so far.
sessionCalls == Len(parses) + Cardinality(Residues) + Len(calls)

SessionParse == \E parts \in SessionMenu : sessionCalls < MaxSession /\ ParseCall(parts)

SessionResidue == sessionCalls < MaxSession /\ ResidueCall

SessionProject ==
    \E i \in 1..Len(schemas), r \in SessionResults :
        sessionCalls < MaxSession /\ ProjectCall(i, r)

SessionNext == SessionParse \/ SessionResidue \/ SessionProject

SessionSpec == SessionInit /\ [][SessionNext]_vars

----------------------------------------------------------------------------
(* Properties of a session, under SessionSpec.                             *)

\* The value a record has for a key.
valueFor(key, r) == Extract(newExtractor(key).ext, r)

\* Whether a record lacks a key: a file key it has no entry for, or a sub-name
\* key its name has no part for.  Every record has .name and .fullname.
lacks(key, r) ==
    IF key \in {S_name, S_fullname} THEN FALSE
    ELSE IF key = S_gomaxprocs
    THEN /\ splitGomaxprocs(r.Name).gomaxprocs = <<>>
         /\ \A k \in 1..Len(Parts(r.Name).parts) :
                ~HasPrefix(Parts(r.Name).parts[k], key \o <<"=">>)
    ELSE IF HasPrefix(key, <<"/">>)
    THEN \A k \in 1..Len(Parts(r.Name).parts) :
             ~HasPrefix(Parts(r.Name).parts[k], key \o <<"=">>)
    ELSE FileConfigIndex(r, key) = 0

\* The parts of a Parse call that have a fixed order.
fixedParts(parts) == {j \in DOMAIN parts : parts[j].Order = "fixed"}

\* After a successful Parse, the filter accepts exactly the records it
\* accepted before whose value for every key@(...) of the call is listed.
FilterAccumulates(k) ==
    \A r \in SessionResults :
        Match(parses[k].after, r)
            <=> /\ Match(parses[k].before, r)
                /\ \A j \in fixedParts(parses[k].parts) :
                       valueFor(parses[k].parts[j].Key, r) \in Range(parses[k].parts[j].Fixed)

\* C8: after a successful Parse the filter accepts a record exactly when it
\* accepted it before and its value for every key@(v1 ... vn) of the call is
\* listed; a record lacking such a key is rejected unless the empty string is
\* listed for it.
C8_FixedFilter ==
    \A k \in DOMAIN parses :
        parses[k].ok =>
            /\ FilterAccumulates(k)
            /\ \A r \in SessionResults : \A j \in fixedParts(parses[k].parts) :
                   /\ lacks(parses[k].parts[j].Key, r)
                   /\ <<>> \notin Range(parses[k].parts[j].Fixed)
                   => ~Match(parses[k].after, r)

\* C8 as stated: a record lacking the key is rejected whatever is listed.
C8_Original ==
    \A k \in DOMAIN parses :
        parses[k].ok =>
            /\ FilterAccumulates(k)
            /\ \A r \in SessionResults : \A j \in fixedParts(parses[k].parts) :
                   lacks(parses[k].parts[j].Key, r) => ~Match(parses[k].after, r)

\* C8's case: two successful Parse calls with fixed orders on one filter, the
\* second rejecting a record the first accepted and another one for lacking
\* the key, and accepting a third.
C8_Witness ==
    /\ Len(parses) = 2
    /\ parses[1].ok /\ parses[2].ok
    /\ fixedParts(parses[1].parts) # {} /\ fixedParts(parses[2].parts) # {}
    /\ \E r1, r2, r3 \in SessionResults :
           /\ Match(parses[1].after, r1) /\ ~Match(parses[2].after, r1)
           /\ \E j \in fixedParts(parses[2].parts) :
                  lacks(parses[2].parts[j].Key, r2) /\ ~Match(parses[2].after, r2)
           /\ Match(parses[2].after, r3)

\* C9: every Config produced from a record the filter accepts holds, in each
\* field of fixed order, a value of the field's list.
C9_FixedValuesListed ==
    \A k \in DOMAIN calls :
        calls[k].accepted =>
            \A j \in DOMAIN calls[k].out : \A f \in Leaves(schemas[calls[k].schema]) :
                schemas[calls[k].schema].nodes[f].cmp = "fixed" =>
                    Get(schemas[calls[k].schema], calls[k].out[j], f)
                        \in Range(schemas[calls[k].schema].nodes[f].fixed)

\* The keys named specifically in the successful Parse calls.
namedKeys ==
    UNION {{parses[k].parts[j].Key : j \in DOMAIN parses[k].parts} :
               k \in {n \in DOMAIN parses : parses[n].ok}}
        \ {S_config, S_fullname}

\* A .fullname value without the stand-in of a GOMAXPROCS suffix.
withoutStandIn(val) ==
    IF HasSuffix(val, <<"-", "*">>) THEN SubSeq(val, 1, Len(val) - 2) ELSE val

\* Whether a .fullname value shows a key only as its stand-in: * for .name,
\* /key=* for a sub-name key, and no -N suffix for /gomaxprocs.
standsIn(key, val) ==
    IF key = S_name THEN Parts(val).base = <<"*">>
    ELSE /\ \A k \in 1..Len(Parts(withoutStandIn(val)).parts) :
                HasPrefix(Parts(withoutStandIn(val)).parts[k], key \o <<"=">>)
                    => Parts(withoutStandIn(val)).parts[k] = key \o <<"=", "*">>
         /\ key = S_gomaxprocs => splitGomaxprocs(val).gomaxprocs = <<>>

\* The fields of the .config groups of s, by name.
groupKeys(s) ==
    UNION {{s.nodes[f].Name : f \in Range(s.nodes[g].sub)} : g \in Groups(s) \ {RootField}}

\* The .fullname fields of s.
fullnameFields(s) == {f \in Leaves(s) : s.nodes[f].Name = S_fullname}

\* Every Parse call came before the first projection.
ParsedFirst == \A k \in DOMAIN parses : parses[k].projected = 0

\* C10: when every Parse call precedes the first projection, no key named
\* specifically in a Parse call is a field of a .config group, and every
\* .fullname value shows each named sub-name key and .name only as its
\* stand-in.
C10_Exclusion ==
    ParsedFirst =>
        \A i \in DOMAIN schemas :
            /\ groupKeys(schemas[i]) \cap namedKeys = {}
            /\ \A c \in Configs(schemas[i]) : \A f \in fullnameFields(schemas[i]) :
                   \A key \in namedKeys :
                       key = S_name \/ HasPrefix(key, <<"/">>)
                           => standsIn(key, Get(schemas[i], c, f))

\* C10's case: a group was parsed before the call that named a key, a record
\* that has the named key was projected through the group's Schema, and the
\* group got a field (for a file key) or the .fullname value a stand-in (for
\* a sub-name key or .name).
C10_Witness ==
    /\ ParsedFirst
    /\ Len(parses) = 2 /\ parses[1].ok /\ parses[2].ok
    /\ \E j \in DOMAIN parses[1].parts : parses[1].parts[j].Key \in {S_config, S_fullname}
    /\ \E k \in DOMAIN calls : \E j \in DOMAIN parses[2].parts :
           /\ calls[k].schema = parses[1].schema
           /\ parses[2].parts[j].Key \notin {S_config, S_fullname}
           /\ ~lacks(parses[2].parts[j].Key, calls[k].res)
           /\ IF parses[2].parts[j].Key = S_name \/ HasPrefix(parses[2].parts[j].Key, <<"/">>)
              THEN \E f \in fullnameFields(schemas[calls[k].schema]) :
                       Contains(Get(schemas[calls[k].schema], calls[k].out[1], f), <<"*">>)
              ELSE groupKeys(schemas[calls[k].schema]) # {}

\* Whether a successful Parse call that returned before schemas[i] was
\* created had key among its parts.
parsedBefore(i, key) ==
    \E k \in DOMAIN parses :
        /\ parses[k].ok /\ parses[k].schema < i
        /\ \E j \in DOMAIN parses[k].parts : parses[k].parts[j].Key = key

\* The keys named specifically in the first n Parse calls.
namedIn(n) ==
    UNION {{parses[k].parts[j].Key : j \in DOMAIN parses[k].parts} : k \in 1..n}
        \ {S_config, S_fullname}

\* The fields of the .config groups of s.
groupFields(s) == UNION {Range(s.nodes[g].sub) : g \in Groups(s) \ {RootField}}

\* The Config holds, in the fields of the .config group, exactly the file
\* configuration of r outside the keys named, and in .fullname the name of r
\* with the named components as stand-ins.
residueOf(s, c, r, named) ==
    /\ \A n \in DOMAIN r.FileConfig :
           r.FileConfig[n].Key \notin named /\ Groups(s) # {RootField}
               => \E f \in groupFields(s) :
                      /\ s.nodes[f].Name = r.FileConfig[n].Key
                      /\ Get(s, c, f) = r.FileConfig[n].Value
    /\ \A f \in groupFields(s) :
           Get(s, c, f) # <<>> => s.nodes[f].Name \notin named
    /\ \A f \in fullnameFields(s) :
           /\ \A key \in named :
                  key = S_name \/ HasPrefix(key, <<"/">>) => standsIn(key, Get(s, c, f))
           /\ (\A key \in named : key # S_name /\ ~HasPrefix(key, <<"/">>))
                  => Get(s, c, f) = r.Name

\* C11: the Schema Residue returns has a .config group exactly when no
\* earlier successful Parse projected .config, and a .fullname field exactly
\* when none projected .fullname; a record projected through it gets one
\* field per file key that no Parse named, and its full name with every named
\* component replaced by its stand-in.
C11_Residue ==
    \A i \in Residues :
        /\ Groups(schemas[i]) # {RootField} <=> ~parsedBefore(i, S_config)
        /\ fullnameFields(schemas[i]) # {} <=> ~parsedBefore(i, S_fullname)
        /\ \A k \in DOMAIN calls :
               calls[k].schema = i =>
                   residueOf(schemas[i], calls[k].out[1], calls[k].res, namedIn(calls[k].parsed))

----------------------------------------------------------------------------
(* Properties of the flattening, under Spec.                               *)

\* The place of a leaf in the tree: the position under the root of the leaf
\* or of its group, then its position in the group (0 for a leaf under the
\* root).
placeOf(s, f) ==
    IF \E i \in DOMAIN s.nodes[RootField].sub : s.nodes[RootField].sub[i] = f
    THEN <<CHOOSE i \in DOMAIN s.nodes[RootField].sub : s.nodes[RootField].sub[i] = f, 0>>
    ELSE CHOOSE pl \in (DOMAIN s.nodes[RootField].sub) \X (1..Len(s.nodes)) :
             /\ pl[2] \in DOMAIN s.nodes[s.nodes[RootField].sub[pl[1]]].sub
             /\ s.nodes[s.nodes[RootField].sub[pl[1]]].sub[pl[2]] = f

\* Depth-first, left-to-right.
placedBefore(s, f, g) ==
    \/ placeOf(s, f)[1] < placeOf(s, g)[1]
    \/ placeOf(s, f)[1] = placeOf(s, g)[1] /\ placeOf(s, f)[2] < placeOf(s, g)[2]

\* Whether flat lists exactly the leaves of s, each once, depth-first and
\* left to right, the fields of a group in creation order.
isFlatten(s, flat) ==
    /\ Range(flat) = Leaves(s)
    /\ Len(flat) = s.nFields
    /\ \A j, k \in DOMAIN flat : j < k => placedBefore(s, flat[j], flat[k])
    /\ \A f, g \in groupFields(s) :
           placeOf(s, f)[1] = placeOf(s, g)[1] /\ s.nodes[f].idx < s.nodes[g].idx
               => placedBefore(s, f, g)

\* C13: after any sequence of Parse, AddValues and Project calls, Fields()
\* is the depth-first, left-to-right flatten of the field tree, without the
\* group nodes and with the fields of a group at the group's position in
\* creation order; a cached flatten is never stale.
C13_Flatten ==
    \A i \in DOMAIN schemas :
        /\ isFlatten(schemas[i], Fields(schemas[i]))
        /\ schemas[i].flatCache.valid => isFlatten(schemas[i], schemas[i].flatCache.fields)

\* C13's case: a flatten was cached, then a record made a group create a
\* field, and the flatten cached now shows that field before a specific field
\* that is older and follows the group.
C13_Witness ==
    \E i \in DOMAIN schemas : \E k \in DOMAIN calls :
        /\ calls[k].schema = i /\ k > 1
        /\ schemas[i].flatCache.valid
        /\ \E j, n \in DOMAIN schemas[i].flatCache.fields :
               /\ j < n
               /\ schemas[i].flatCache.fields[j] \in groupFields(schemas[i])
               /\ schemas[i].flatCache.fields[n] \notin groupFields(schemas[i])
               /\ schemas[i].nodes[schemas[i].flatCache.fields[j]].idx >= Len(calls[1].rows[1])
               /\ schemas[i].nodes[schemas[i].flatCache.fields[n]].idx < Len(calls[1].rows[1])

----------------------------------------------------------------------------
(* HeaderSpec: one Schema, records projected through it, and then          *)
(* NewConfigHeader or NonSingularFields on a slice of its Configs, in any  *)
(* order and with repetitions.                                             *)

\* Project calls on the Schema.
MaxHeaderProjects == 3

\* Length of the slice handed to NewConfigHeader and NonSingularFields.
MaxHeader == 3

\* Projection expressions:   .config    .config,b
HeaderMenu ==
    { <<Projection(S_config, "first", <<>>)>>,
      <<Projection(S_config, "first", <<>>), Projection(K_b, "first", <<>>)>> }

HeaderResults ==
    { Result(<<"N">>, <<<<K_a, V_1>>, <<K_b, V_x>>>>, <<>>),
      Result(<<"N">>, <<<<K_a, V_2>>, <<K_b, V_x>>>>, <<>>),
      Result(<<"N">>, <<<<K_a, V_1>>>>, <<>>),
      Result(<<"N">>, <<<<K_b, V_x>>>>, <<>>) }

\* The slices of at most MaxHeader Configs of s.
HeaderSlices(s) == UNION {[1..n -> Configs(s)] : n \in 0..MaxHeader}

HeaderParse == \E parts \in HeaderMenu : Len(parses) = 0 /\ ParseCall(parts)

HeaderProject ==
    \E i \in 1..Len(schemas), r \in HeaderResults :
        Len(calls) < MaxHeaderProjects /\ ProjectCall(i, r)

\* The log holds one call: the next one is made after a Project call has
\* cleared it.
DoHeader ==
    \E i \in 1..Len(schemas) : \E configs \in HeaderSlices(schemas[i]) :
        read = NoRead /\ HeaderCall(i, configs)

DoNonSingular ==
    \E i \in 1..Len(schemas) : \E configs \in HeaderSlices(schemas[i]) :
        read = NoRead /\ NonSingularCall(i, configs)

HeaderNext == HeaderParse \/ HeaderProject \/ DoHeader \/ DoNonSingular

HeaderSpec == Init /\ [][HeaderNext]_vars

\* The header returned by the last NewConfigHeader call on a non-empty slice.
HeaderOf == IF read.op = "header" /\ Len(read.configs) > 0 THEN read.levels ELSE <<>>

\* Where a node ends.
EndOf(node) == node.Start + node.Len

\* The value the k-th Config of the slice (from 0) holds in the field of
\* level l (from 1).
Held(k, l) ==
    Get(schemas[read.schema], read.configs[k + 1], Fields(schemas[read.schema])[l])

\* C14: for a non-empty slice, grouped or not, the nodes of every level of
\* the header tile the slice: the first starts at 0, each next one starts
\* where the one before ends, every Len is at least 1, and the last ends at
\* len(configs).
C14_Tiles ==
    \A l \in DOMAIN HeaderOf :
        /\ Len(HeaderOf[l]) >= 1
        /\ HeaderOf[l][1].Start = 0
        /\ \A k \in DOMAIN HeaderOf[l] :
               /\ HeaderOf[l][k].Len >= 1
               /\ k > 1 => HeaderOf[l][k].Start = EndOf(HeaderOf[l][k - 1])
        /\ EndOf(HeaderOf[l][Len(HeaderOf[l])]) = Len(read.configs)

\* C14's case: a slice that is not grouped (a value comes back after a
\* different one) and a header of two levels, the second with a node that
\* starts in the middle of the slice.
C14_Witness ==
    /\ Len(HeaderOf) = 2 /\ Len(read.configs) = 3
    /\ Held(0, 1) # Held(1, 1) /\ Held(0, 1) = Held(2, 1)
    /\ Len(HeaderOf[1]) = 3
    /\ \E k \in DOMAIN HeaderOf[2] : HeaderOf[2][k].Start = 1

\* C15: every node of level i+1 lies inside one node of level i, so a change
\* of value at a coarser level starts a new node at every finer level, also
\* when the finer value is the same on both sides.
C15_Nested ==
    \A l \in DOMAIN HeaderOf :
        l > 1 =>
            \A n \in DOMAIN HeaderOf[l] : \E m \in DOMAIN HeaderOf[l - 1] :
                /\ HeaderOf[l - 1][m].Start <= HeaderOf[l][n].Start
                /\ EndOf(HeaderOf[l][n]) <= EndOf(HeaderOf[l - 1][m])

\* C15's case: two neighbouring Configs differ at a coarser level and hold
\* the same value at a finer one, where two nodes meet.
C15_Witness ==
    \E l \in DOMAIN HeaderOf : \E n \in DOMAIN HeaderOf[l] :
        /\ l > 1 /\ n > 1
        /\ HeaderOf[l][n].Value = HeaderOf[l][n - 1].Value
        /\ HeaderOf[l][n].Value # <<>>
        /\ Held(HeaderOf[l][n].Start, l - 1) # Held(HeaderOf[l][n].Start - 1, l - 1)

\* Whether nodes n - 1 and n of level l share a parent.
SameParent(l, n) ==
    l > 1 => \E m \in DOMAIN HeaderOf[l - 1] :
                 /\ HeaderOf[l - 1][m].Start <= HeaderOf[l][n - 1].Start
                 /\ EndOf(HeaderOf[l][n]) <= EndOf(HeaderOf[l - 1][m])

\* The positions of the slice a node covers.
Span(node) == node.Start..(EndOf(node) - 1)

\* C16: all Configs under a header node hold the node's Value in the node's
\* Field and agree on every field of a coarser level, a Config too short for
\* a field holding the empty value there; two neighbouring nodes of a level
\* that share a parent have different values.
C16_Runs ==
    \A l \in DOMAIN HeaderOf : \A n \in DOMAIN HeaderOf[l] :
        /\ \A k \in Span(HeaderOf[l][n]) : Held(k, HeaderOf[l][n].Field + 1) = HeaderOf[l][n].Value
        /\ \A m \in 1..(l - 1) : \A j, k \in Span(HeaderOf[l][n]) : Held(j, m) = Held(k, m)
        /\ n > 1 /\ SameParent(l, n) => HeaderOf[l][n].Value # HeaderOf[l][n - 1].Value

\* C16's case: a node of a finer level spans two Configs, one of them too
\* short to have the field, and has a neighbour under the same parent.
C16_Witness ==
    \E l \in DOMAIN HeaderOf : \E n \in DOMAIN HeaderOf[l] :
        /\ l > 1 /\ HeaderOf[l][n].Len >= 2 /\ HeaderOf[l][n].Value = <<>>
        /\ \E k \in Span(HeaderOf[l][n]) :
               schemas[read.schema].nodes[Fields(schemas[read.schema])[l]].idx
                   >= Len(schemas[read.schema].cnodes[read.configs[k + 1]].vals)
        /\ \E n2 \in DOMAIN HeaderOf[l] :
               (n2 = n + 1 /\ SameParent(l, n2)) \/ (n2 = n - 1 /\ SameParent(l, n))

\* C17: NewConfigHeader returns no levels for an empty slice, and otherwise
\* one level per field of the Schema in the order of Fields(), every node of
\* level i having Field = i and the value of that field.
C17_Levels ==
    read.op = "header" =>
        IF Len(read.configs) = 0 THEN read.levels = <<>>
        ELSE /\ Len(read.levels) = Len(Fields(schemas[read.schema]))
             /\ \A l \in DOMAIN read.levels : \A n \in DOMAIN read.levels[l] :
                    /\ read.levels[l][n].Field = l - 1
                    /\ read.levels[l][n].Value = Held(read.levels[l][n].Start, l)

\* C17's case: a header over a Schema whose field order is not the order of
\* the fields' storage indices.
C17_Witness ==
    /\ read.op = "header" /\ Len(read.configs) >= 2 /\ Len(read.levels) = 2
    /\ schemas[read.schema].nodes[Fields(schemas[read.schema])[1]].idx = 1
    /\ schemas[read.schema].nodes[Fields(schemas[read.schema])[2]].idx = 0
    /\ read.levels[1][1].Value # read.levels[2][1].Value

\* The places of the slice where the value of the first field changes.
FirstChanges == {k \in 1..(Len(read.configs) - 1) : Held(k, 1) # Held(k - 1, 1)}

\* C18, amended: level 0 of the header of a non-empty slice divides the
\* whole slice into the maximal runs of the first field's value; it is a
\* single node spanning the slice exactly when all Configs hold the same
\* value in that field.  (The root span is where the subdivision starts and
\* is not returned.)
C18_FirstLevel ==
    Len(HeaderOf) >= 1 =>
        /\ Len(HeaderOf[1]) = 1 + Cardinality(FirstChanges)
        /\ \A n \in DOMAIN HeaderOf[1] :
               HeaderOf[1][n].Field = 0 /\ (n > 1 => HeaderOf[1][n].Start \in FirstChanges)
        /\ (Len(HeaderOf[1]) = 1 /\ HeaderOf[1][1].Len = Len(read.configs))
               <=> \A j, k \in 0..(Len(read.configs) - 1) : Held(j, 1) = Held(k, 1)

\* C18 as stated: level 0 of the header of a non-empty slice is a single
\* root node spanning the whole slice.
C18_Original ==
    Len(HeaderOf) >= 1 =>
        /\ Len(HeaderOf[1]) = 1
        /\ HeaderOf[1][1].Start = 0
        /\ HeaderOf[1][1].Len = Len(read.configs)

\* C18's case: a slice whose Configs hold different values in the first
\* field, and a level 0 of several nodes.
C18_Witness ==
    /\ Len(HeaderOf) >= 1 /\ Len(read.configs) = 3
    /\ Len(HeaderOf[1]) = 2
    /\ HeaderOf[1][2].Start = 2

\* Whether two of the Configs of the last NonSingularFields call hold
\* different values in field f.
Disagree(f) ==
    \E j, k \in DOMAIN read.configs :
        Get(schemas[read.schema], read.configs[j], f) # Get(schemas[read.schema], read.configs[k], f)

\* C19: NonSingularFields returns nothing for zero or one Config, and
\* otherwise exactly the fields in which two of the Configs hold different
\* values, a missing value being empty, in the order of Fields() and each
\* once.
C19_NonSingular ==
    read.op = "nonsingular" =>
        IF Len(read.configs) <= 1 THEN read.out = <<>>
        ELSE /\ read.out = SelectSeq(Fields(schemas[read.schema]), Disagree)
             /\ \A j, k \in DOMAIN read.out : j # k => read.out[j] # read.out[k]

\* C19's case: three Configs, the first two alike, that agree in one field
\* and not in another, which one of them is too short to have.
C19_Witness ==
    /\ read.op = "nonsingular" /\ Len(read.configs) = 3
    /\ read.configs[1] = read.configs[2]
    /\ Len(read.out) = 1 /\ Len(Fields(schemas[read.schema])) = 2
    /\ \E k \in DOMAIN read.configs :
           schemas[read.schema].nodes[read.out[1]].idx
               >= Len(schemas[read.schema].cnodes[read.configs[k]].vals)

----------------------------------------------------------------------------
(* ReadSpec: goroutines reading the Configs of a Schema concurrently.      *)
(* Parse, Project and AddValues run only while no goroutine is in a read   *)
(* operation; a read operation runs step by step, interleaved with the     *)
(* other goroutines' steps.  Every operation but Get starts by calling      *)
(* Schema.Fields, whose steps are: test flatCache, make the slice, append   *)
(* each leaf of the walk, return flatCache.                                 *)

\* Project and AddValues calls on the Schema.
MaxReadCalls == 2

\* The read operations on the Configs of a Schema.
ReadOps ==
    {"Get", "String", "StringValues", "Less", "SortConfigs", "NewConfigHeader", "NonSingularFields"}

AllIdle == \A p \in DOMAIN readers : readers[p].pc = "idle"

ReadParse == \E parts \in HeaderMenu : Len(parses) = 0 /\ AllIdle /\ ParseCall(parts)

ReadProject ==
    \E i \in 1..Len(schemas), r \in HeaderResults :
        nCalls(i) < MaxReadCalls /\ AllIdle /\ ProjectCall(i, r)

ReadAddValues ==
    \E i \in 1..Len(schemas) : nCalls(i) < MaxReadCalls /\ AllIdle /\ AddValuesCall(i)

\* A step of goroutine p that leaves it as the record to, and the Schemas as
\* given.
ReaderStep(p, to, ss) ==
    /\ readers' = [readers EXCEPT ![p] = to]
    /\ schemas' = ss
    /\ UNCHANGED <<pp, filter, calls, parses, sorted, read, query>>

\* Goroutine p starts operation op on Configs of schemas[i].  Get reads the
\* Config only; every other operation calls Fields, which tests flatCache
\* and returns it if it is not nil.
BeginRead(p, op, i) ==
    /\ readers[p].pc = "idle"
    /\ Len(schemas[i].cnodes) > 0
    /\ ReaderStep(p,
                  IF op = "Get"
                  THEN [NotReading EXCEPT !.pc = "reading", !.op = op, !.schema = i]
                  ELSE IF schemas[i].flatCache.valid
                  THEN [NotReading EXCEPT !.pc = "reading", !.op = op, !.schema = i,
                                          !.flat = schemas[i].flatCache.fields]
                  ELSE [NotReading EXCEPT !.pc = "make", !.op = op, !.schema = i],
                  schemas)

\* s.flatCache = make([]Field, 0, s.nFields)
MakeCache(p) ==
    /\ readers[p].pc = "make"
    /\ ReaderStep(p, [readers[p] EXCEPT !.pc = "walk",
                                        !.todo = walk(schemas[readers[p].schema], RootField)],
                  [schemas EXCEPT ![readers[p].schema].flatCache = [valid |-> TRUE, fields |-> <<>>]])

\* s.flatCache = append(s.flatCache, f), for the next leaf of the walk
AppendField(p) ==
    /\ readers[p].pc = "walk" /\ readers[p].todo # <<>>
    /\ ReaderStep(p, [readers[p] EXCEPT !.todo = Tail(@)],
                  [schemas EXCEPT ![readers[p].schema].flatCache.fields =
                                      Append(@, Head(readers[p].todo))])

\* return s.flatCache, at the end of the walk
ReturnCache(p) ==
    /\ readers[p].pc = "walk" /\ readers[p].todo = <<>>
    /\ ReaderStep(p, [readers[p] EXCEPT !.pc = "reading",
                                        !.flat = schemas[readers[p].schema].flatCache.fields],
                  schemas)

\* The rest of the operation reads the Configs' values and flat.
EndRead(p) ==
    /\ readers[p].pc = "reading"
    /\ ReaderStep(p, NotReading, schemas)

DoBeginRead ==
    \E p \in DOMAIN readers, op \in ReadOps, i \in 1..Len(schemas) : BeginRead(p, op, i)

DoMakeCache == \E p \in DOMAIN readers : MakeCache(p)

DoAppendField == \E p \in DOMAIN readers : AppendField(p)

DoReturnCache == \E p \in DOMAIN readers : ReturnCache(p)

DoEndRead == \E p \in DOMAIN readers : EndRead(p)

ReadNext ==
    \/ ReadParse \/ ReadProject \/ ReadAddValues
    \/ DoBeginRead \/ DoMakeCache \/ DoAppendField \/ DoReturnCache \/ DoEndRead

ReadSpec == Init /\ [][ReadNext]_vars

\* C12: while no Project, ProjectValues or AddValues call is in progress,
\* the steps of concurrent read operations on a Schema's Configs write no
\* state they share: the Schema, in whatever state earlier calls left it,
\* is not changed by them.
C12_ReadsWriteNothing ==
    [][(\E p \in DOMAIN readers : readers'[p] # readers[p]) => schemas' = schemas]_vars

----------------------------------------------------------------------------
(* FilterSpec: a filter expression is written token by token and handed to *)
(* ParseFilter.                                                            *)

\* Tokens in an expression.
MaxTokens == 4

\* The tokens expressions are written with.
TokenTexts == {"a", "/b/", "AND", "OR", "(", ")", ":", "-", "*", "@"}

WriteToken ==
    \E t \in TokenTexts :
        /\ ~query.done /\ Len(query.toks) < MaxTokens
        /\ query' = [query EXCEPT !.toks = Append(@, t)]
        /\ UNCHANGED <<pp, filter, schemas, calls, parses, sorted, read, readers>>

\* The state a ParseFilter call leaves, got being what it returned.
FilterParsed(got) ==
    /\ query' = [query EXCEPT !.done = TRUE, !.f = got.f, !.err = got.toks.err]
    /\ UNCHANGED <<pp, filter, schemas, calls, parses, sorted, read, readers>>

\* ParseFilter(q), q being the text of the tokens written.
DoParseFilter == ~query.done /\ FilterParsed(ParseFilter(query.toks))

FilterNext == WriteToken \/ DoParseFilter

FilterSpec == Init /\ [][FilterNext]_vars

\* The filter grammar, on token sequences:
\*   expr = andExpr {OR andExpr}      andExpr = match {AND? match}
\*   match = ( expr ) | - match | * | key : value | key : ( value {value} )
\*   key = word      value = word | regexp
IsWord(t) == kindOf(t, FALSE) = "w"

IsValue(t) == kindOf(t, TRUE) \in {"w", "r"}

RECURSIVE IsExpr(_)
RECURSIVE IsAndExpr(_)
RECURSIVE IsMatch(_)

IsMatch(ts) ==
    \/ Len(ts) >= 3 /\ ts[1] = "(" /\ ts[Len(ts)] = ")" /\ IsExpr(SubSeq(ts, 2, Len(ts) - 1))
    \/ Len(ts) >= 2 /\ ts[1] = "-" /\ IsMatch(Tail(ts))
    \/ ts = <<"*">>
    \/ Len(ts) = 3 /\ IsWord(ts[1]) /\ ts[2] = ":" /\ IsValue(ts[3])
    \/ /\ Len(ts) >= 5 /\ IsWord(ts[1]) /\ ts[2] = ":" /\ ts[3] = "(" /\ ts[Len(ts)] = ")"
       /\ \A k \in 4..(Len(ts) - 1) : IsValue(ts[k])

IsAndExpr(ts) ==
    \/ IsMatch(ts)
    \/ \E k \in 1..(Len(ts) - 1) :
           /\ IsMatch(SubSeq(ts, 1, k))
           /\ \/ IsAndExpr(SubSeq(ts, k + 1, Len(ts)))
              \/ ts[k + 1] = "AND" /\ IsAndExpr(SubSeq(ts, k + 2, Len(ts)))

IsExpr(ts) ==
    \/ IsAndExpr(ts)
    \/ \E k \in 2..(Len(ts) - 1) :
           /\ ts[k] = "OR"
           /\ IsAndExpr(SubSeq(ts, 1, k - 1))
           /\ IsExpr(SubSeq(ts, k + 1, Len(ts)))

\* Whether an AND or OR of the expression is not followed by the start of a
\* match.
OperatorDangles(ts) ==
    \E k \in DOMAIN ts :
        /\ ts[k] \in {"AND", "OR"}
        /\ k = Len(ts) \/ ~(ts[k + 1] \in {"(", "-", "*"} \/ IsWord(ts[k + 1]))

\* C20: ParseFilter returns a SyntaxError for every expression whose tokens
\* the filter grammar does not derive, in particular for every expression
\* in which an AND or OR is not followed by a match.
C20_RejectsUnderivable ==
    query.done =>
        /\ ~IsExpr(query.toks) => query.err.set
        /\ OperatorDangles(query.toks) => query.err.set

\* The number of tokens t in an expression.
RECURSIVE Occurrences(_, _)
Occurrences(ts, t) ==
    IF ts = <<>> THEN 0 ELSE (IF Head(ts) = t THEN 1 ELSE 0) + Occurrences(Tail(ts), t)

\* An expression with a parenthesis that is never closed.
Unclosed(ts) == Occurrences(ts, "(") > Occurrences(ts, ")")

\* An expression with tokens after a complete expression that no operator,
\* match or open parenthesis connects to it.
LeftOver(ts) ==
    \E k \in 1..(Len(ts) - 1) :
        /\ IsExpr(SubSeq(ts, 1, k))
        /\ ~(ts[k + 1] \in {"AND", "OR", "(", "-", "*"} \/ IsWord(ts[k + 1]))

\* An expression with an empty multi-match list key:().
EmptyMulti(ts) ==
    \E k \in 1..(Len(ts) - 2) : ts[k] = ":" /\ ts[k + 1] = "(" /\ ts[k + 2] = ")"

\* ParseFilter returned an error and a nil Filter.
Rejected == query.err.set /\ query.f = NilFilter

\* C21: ParseFilter returns a SyntaxError and a nil Filter for empty input,
\* for an unclosed parenthesis, for tokens left over after a complete
\* expression and for an empty multi-match list key:(); it never returns
\* both a Filter and an error.
C21_Rejects ==
    query.done =>
        /\ query.toks = <<>> => Rejected
        /\ Unclosed(query.toks) => Rejected
        /\ LeftOver(query.toks) => Rejected
        /\ EmptyMulti(query.toks) => Rejected
        /\ query.err.set <=> query.f = NilFilter

\* A parenthesised expression followed by a second ")" was rejected with
\* the error  unexpected ")".
C21_Witness ==
    /\ query.done
    /\ query.toks = <<"(", "*", ")", ")">>
    /\ Rejected
    /\ query.err.msg = <<"unexpected", ")">>
    /\ query.err.off = 3

----------------------------------------------------------------------------
(* TreeSpec: an expression the filter grammar derives is put together from *)
(* matches, operators, negations and parentheses, and handed to            *)
(* ParseFilter.                                                            *)

\* Tokens in an expression.
MaxTreeTokens == 9

\* The matches expressions are put together from.
TreeMatches ==
    { <<"*">>, <<"a", ":", "a">>, <<"a", ":", "/b/">>,
      <<"a", ":", "(", "/b/", ")">>, <<"a", ":", "(", "a", "/b/", ")">> }

\* What stands between an expression and the match that follows it.
TreeGlue == {<<>>, <<"AND">>, <<"OR">>}

Written(ts) ==
    /\ ~query.done /\ Len(ts) <= MaxTreeTokens
    /\ query' = [query EXCEPT !.toks = ts]
    /\ UNCHANGED <<pp, filter, schemas, calls, parses, sorted, read, readers>>

WriteMatch ==
    \E m \in TreeMatches, glue \in TreeGlue :
        /\ query.toks = <<>> => glue = <<>>
        /\ Written(query.toks \o glue \o m)

WriteNot == query.toks # <<>> /\ Written(<<"-">> \o query.toks)

WriteParens == query.toks # <<>> /\ Written(<<"(">> \o query.toks \o <<")">>)

TreeNext == WriteMatch \/ WriteNot \/ WriteParens \/ DoParseFilter

TreeSpec == Init /\ [][TreeNext]_vars

\* The tree the grammar and its documentation give an expression, base
\* being the offset of its first token.  An OR outside every parenthesis
\* separates the andExprs of an expr; an andExpr is its matches in order,
\* whether or not an AND stands between them; one term alone stands for
\* itself.
Depth(ts, k) == Occurrences(SubSeq(ts, 1, k - 1), "(") - Occurrences(SubSeq(ts, 1, k - 1), ")")

TopLevel(ts, t) == {k \in DOMAIN ts : ts[k] = t /\ Depth(ts, k) = 0}

MatchEnds(ts, i) == {j \in i..Len(ts) : IsMatch(SubSeq(ts, i, j))}

SingleMatch(key, value, off) ==
    IF kindOf(value, TRUE) = "r" THEN FilterMatch(key, value, "", off)
    ELSE FilterMatch(key, "", value, off)

OneOrOp(op, terms) == IF Len(terms) = 1 THEN terms[1] ELSE FilterOp(op, terms)

RECURSIVE ExprTree(_, _)
RECURSIVE AndTree(_, _)
RECURSIVE MatchTree(_, _)
RECURSIVE AndTerms(_, _, _, _)
RECURSIVE OrTerms(_, _, _, _)

MatchTree(ts, base) ==
    CASE ts[1] = "(" -> ExprTree(SubSeq(ts, 2, Len(ts) - 1), base + 1)
      [] ts[1] = "-" -> FilterOp("NOT", <<MatchTree(Tail(ts), base + 1)>>)
      [] ts[1] = "*" -> FilterOp("AND", <<>>)
      [] Len(ts) = 3 -> SingleMatch(ts[1], ts[3], base)
      [] OTHER -> FilterOp("OR", [k \in 1..(Len(ts) - 4) |-> SingleMatch(ts[1], ts[k + 3], base)])

\* The matches of an andExpr from its token i on, ends being where a match
\* that starts at i can end.
AndTerms(ts, base, i, ends) ==
    CASE i > Len(ts) -> <<>>
      [] i <= Len(ts) /\ ts[i] = "AND" -> AndTerms(ts, base, i + 1, MatchEnds(ts, i + 1))
      [] i <= Len(ts) /\ ts[i] # "AND" /\ ends = {} -> <<>>
      [] OTHER -> <<MatchTree(SubSeq(ts, i, SetMin(ends)), base + i - 1)>>
                  \o AndTerms(ts, base, SetMin(ends) + 1, MatchEnds(ts, SetMin(ends) + 1))

AndTree(ts, base) == OneOrOp("AND", AndTerms(ts, base, 1, MatchEnds(ts, 1)))

\* The andExprs of an expr from its token i on, ors being the ORs outside
\* every parenthesis from i on.
OrTerms(ts, base, i, ors) ==
    IF ors = {} THEN <<AndTree(SubSeq(ts, i, Len(ts)), base + i - 1)>>
    ELSE <<AndTree(SubSeq(ts, i, SetMin(ors) - 1), base + i - 1)>>
         \o OrTerms(ts, base, SetMin(ors) + 1, ors \ {SetMin(ors)})

ExprTree(ts, base) == OneOrOp("OR", OrTerms(ts, base, 1, TopLevel(ts, "OR")))

\* A tree without the offsets of its matches.
RECURSIVE NoOff(_)
NoOff(f) == [f EXCEPT !.Off = 0, !.Exprs = [k \in DOMAIN f.Exprs |-> NoOff(f.Exprs[k])]]

\* An expression with its ANDs left out.
RECURSIVE WithoutAnd(_)
WithoutAnd(ts) ==
    IF ts = <<>> THEN <<>>
    ELSE (IF Head(ts) = "AND" THEN <<>> ELSE <<Head(ts)>>) \o WithoutAnd(Tail(ts))

\* C22: in the Filter tree ParseFilter builds for an expression the
\* grammar derives, OR binds looser than AND, a leading - negates only the
\* match or parenthesised subexpression that follows it, key:(v1 ... vn) is
\* the OR of the n matches on the key in order, and an explicit AND gives
\* the tree of plain juxtaposition (up to the offsets of the matches).
C22_Tree ==
    query.done /\ IsExpr(query.toks) =>
        /\ ~query.err.set
        /\ query.f = ExprTree(query.toks, 0)
        /\ NoOff(query.f) = NoOff(ParseFilter(WithoutAnd(query.toks)).f)

\* The expression  -* AND a:(a /b/)  was parsed  (-* AND (a:a OR a:/b/)).
C22_Witness ==
    /\ query.done
    /\ query.toks = <<"-", "*", "AND", "a", ":", "(", "a", "/b/", ")">>
    /\ query.f = FilterOp("AND", << FilterOp("NOT", <<FilterOp("AND", <<>>)>>),
                                    FilterOp("OR", << FilterMatch("a", "", "a", 3),
                                                      FilterMatch("a", "/b/", "", 3) >>) >>)

----------------------------------------------------------------------------
(* ProjectionSpec: a projection expression is written part by part and     *)
(* given to Parse; Results are projected through the Schema it returns,    *)
(* and the Projections it was parsed into are turned back into             *)
(* expressions and parsed again.                                           *)

\* Parts in an expression.
MaxProjParts == 2

\* Project calls on the Schema.
MaxProjCalls == 1

\* The parts expressions are written with, well-formed and not.
ProjParts ==
    { <<"a">>, <<".config">>, <<"\"@\"">>, <<"a", "@", "num">>, <<"a", "@", "zz">>,
      <<"b", "@", "fixed">>, <<"b", "@", "first">>, <<".config", "@", "alpha">>,
      <<"a", "@", "(", "1", "2", ")">>, <<".config", "@", "(", "x", ")">>,
      <<"a", "@", "(", ")">>, <<"a", "@", "(", "x">>, <<"a", "@">>, <<"@">> }

\* What stands between two parts.
ProjGlue == {<<>>, <<",">>}

WritePart ==
    \E part \in ProjParts, glue \in ProjGlue :
        /\ Len(parses) = 0 /\ query.written < MaxProjParts
        /\ query' = [query EXCEPT !.toks = @ \o glue \o part, !.written = @ + 1]
        /\ UNCHANGED <<pp, filter, schemas, calls, parses, sorted, read, readers>>

ProjParse == Len(parses) = 0 /\ ParseTextCall(query.toks)

ProjProject ==
    \E i \in 1..Len(schemas), r \in Results : Len(calls) < MaxProjCalls /\ ProjectCall(i, r)

ProjString ==
    /\ Len(parses) > 0 /\ ~query.done
    /\ \E k \in 1..Len(parses[Len(parses)].parts) : StringCall(k)

ProjectionNext == WritePart \/ ProjParse \/ ProjProject \/ ProjString

ProjectionSpec == Init /\ [][ProjectionNext]_vars

\* Where an expression gives .config a fixed order: the offsets of the "("
\* of a parenthesized list that follows  .config @.
ConfigFixed(ts) ==
    {k \in 2..(Len(ts) - 1) : ts[k - 1] = ".config" /\ ts[k] = "@" /\ ts[k + 1] = "("}

\* The error Parse returns for a fixed order of .config at offset off.
FixedConfigError(off) == SyntaxError(off, <<"fixed order not allowed for .config">>)

\* The Projections of an expression that Parse rejects.
Rejects(parts) ==
    {k \in DOMAIN parts :
        \/ parts[k].Order \notin {"first", "fixed"} \cup builtinOrders
        \/ parts[k].Key = S_config /\ parts[k].Order = "fixed"}

\* The expression parses into Projections of which the first that Parse
\* rejects is a .config with a fixed order.
ConfigFixedFirst(parts) ==
    /\ Rejects(parts) # {}
    /\ parts[SetMin(Rejects(parts))].Key = S_config
    /\ parts[SetMin(Rejects(parts))].Order = "fixed"

\* The Parse call returned an error and no Schema, and no Result was
\* projected.
NoSchema == ~parses[1].ok /\ parses[1].err.set /\ parses[1].schema = 0 /\ schemas = <<>> /\ calls = <<>>

C24_RoundTrip ==
    query.done /\ query.part > 0 =>
        /\ ~query.err.set
        /\ Len(query.projs) = 1
        /\ query.projs[1].Key = parses[1].parts[query.part].Key
        /\ query.projs[1].Order = parses[1].parts[query.part].Order
        /\ query.projs[1].Fixed = parses[1].parts[query.part].Fixed

----------------------------------------------------------------------------
(* NumSpec: one Schema with the field a in num order; records with the     *)
(* values below are projected, and pairs of their Configs are sorted.      *)

\* Project calls on the Schema.
MaxNumProjects == 2

\* Values of a:   1  1.0  2  2k  inf  -Inf  NaN  nan  x  y
NumValues ==
    { V_1, V_1p0, V_2, <<"2", "k">>, <<"i", "n", "f">>, <<"-", "I", "n", "f">>,
      <<"N", "a", "N">>, <<"n", "a", "n">>, V_x, V_y }

NumParse == Len(parses) = 0 /\ ParseCall(<<Projection(K_a, "num", <<>>)>>)

NumProject ==
    \E i \in 1..Len(schemas), v \in NumValues :
        Len(calls) < MaxNumProjects /\ ProjectCall(i, Result(<<"N">>, <<<<K_a, v>>>>, <<>>))

NumSort ==
    \E i \in 1..Len(schemas) : \E configs \in [1..2 -> Configs(schemas[i])] :
        sorted = NoSort /\ SortCall(i, configs)

NumNext == NumParse \/ NumProject \/ NumSort

NumSpec == Init /\ [][NumNext]_vars

\* Where a value stands under the num order: 0 a number that is not a NaN,
\* 1 a NaN, 2 a value that does not parse.
NumClass(x) == IF ~x.ok THEN 2 ELSE IF IsNaN(x) THEN 1 ELSE 0

\* The order the num order and the fallback of less give two values, x and
\* y being what they parse as.
NumBefore(a, b, x, y) ==
    \/ NumClass(x) < NumClass(y)
    \/ NumClass(x) = 0 /\ NumClass(y) = 0 /\ FloatLess(x, y)
    \/ /\ NumClass(x) = NumClass(y)
       /\ NumClass(x) = 0 => ~FloatLess(x, y) /\ ~FloatLess(y, x)
       /\ StrLess(a, b)

\* The value of a that the k-th Config of the sorted slice holds.
SortedValue(k) ==
    Get(schemas[sorted.schema], sorted.after[k], SetMin(Leaves(schemas[sorted.schema])))

\* C25: under the num order numbers that are not NaN sort by their value,
\* a NaN after every one of them, a value that does not parse after every
\* one that does, and two values that are equal as numbers, both NaN or
\* both unparsable by byte-wise comparison of the strings.
C25_NumOrder ==
    sorted.schema # 0 /\ sorted.after[1] # sorted.after[2] =>
        NumBefore(SortedValue(1), SortedValue(2),
                  parseNum(SortedValue(1)), parseNum(SortedValue(2)))

\* A slice holding NaN and then inf was sorted into inf, NaN.
C25_Witness ==
    /\ sorted.schema # 0
    /\ sorted.before # sorted.after
    /\ SortedValue(1) = <<"i", "n", "f">>
    /\ SortedValue(2) = <<"N", "a", "N">>

----------------------------------------------------------------------------
(* MixSpec: two Schemas, and the operations that take several Configs, or  *)
(* a Config and a Field, called with every mixture of the two.  Here a     *)
(* Config is [schema, c], the c-th Config of schemas[schema], and a Field   *)
(* [schema, f].                                                            *)

\* Parse and Project calls.
MaxMix == 4

\* Length of the slices handed to the operations.
MaxMixSlice == 2

\* A panic, and a return with a value.
Panic == [panic |-> TRUE, value |-> <<>>]

Return(v) == [panic |-> FALSE, value |-> <<v>>]

\* The c.c of a slice of Configs.
NodesOf(configs) == [k \in DOMAIN configs |-> configs[k].c]

\* A variant of commonSchema that looks at the first Config only.
commonSchemaFirst(configs) ==
    IF Len(configs) = 0 THEN Return(0) ELSE Return(configs[1].schema)

\* commonSchema: 0 is the nil Schema.
commonSchema(configs) ==
    IF Len(configs) = 0 THEN Return(0)
    ELSE IF \E k \in 2..Len(configs) : configs[k].schema # configs[1].schema THEN Panic
    ELSE Return(configs[1].schema)

\* Config.Less
LessOf(ss, c, o) ==
    IF c.schema # o.schema THEN Panic ELSE Return(Less(ss[c.schema], c.c, o.c))

\* SortConfigs after commonSchema returned common.
sortCommon(ss, configs, common) ==
    IF common.panic THEN Panic
    ELSE Return(SortConfigs(ss[common.value[1]], NodesOf(configs)))

SortConfigsOf(ss, configs) ==
    IF Len(configs) = 0 THEN Return(<<>>) ELSE sortCommon(ss, configs, commonSchema(configs))

\* NewConfigHeader after commonSchema returned common.
headerCommon(ss, configs, common) ==
    IF common.panic THEN Panic
    ELSE Return(NewConfigHeader(ss[common.value[1]], NodesOf(configs)))

NewConfigHeaderOf(ss, configs) ==
    IF Len(configs) = 0 THEN Return(<<>>) ELSE headerCommon(ss, configs, commonSchema(configs))

\* NonSingularFields after commonSchema returned common.
nonSingularCommon(ss, configs, common) ==
    IF common.panic THEN Panic
    ELSE Return(NonSingularFields(ss[common.value[1]], NodesOf(configs)))

NonSingularFieldsOf(ss, configs) ==
    IF Len(configs) <= 1 THEN Return(<<>>)
    ELSE nonSingularCommon(ss, configs, commonSchema(configs))

\* Config.Get
GetOf(ss, c, f) ==
    IF c.schema # f.schema THEN Panic ELSE Return(Get(ss[c.schema], c.c, f.f))

\* Schema.addField with any node as the group.
addFieldUnder(s, group, name) ==
    IF s.nodes[group].idx # -1 THEN Panic ELSE Return(addField(s, group, name))

\* The Configs and the leaf Fields of all Schemas.
AllConfigs == {[schema |-> i, c |-> c] : i \in DOMAIN schemas, c \in 1..MaxMix} \cap
              UNION {{[schema |-> i, c |-> c] : c \in Configs(schemas[i])} : i \in DOMAIN schemas}

AllFields ==
    UNION {{[schema |-> i, f |-> f] : f \in Leaves(schemas[i])} : i \in DOMAIN schemas}

MixSlices == UNION {[1..n -> AllConfigs] : n \in 0..MaxMixSlice}

\* Whether the Configs of a slice are not all of one Schema.
Mixed(configs) == \E j, k \in DOMAIN configs : configs[j].schema # configs[k].schema

\* The state a call leaves that got returned or panicked with.  The
\* operations that returned have called Fields on the Schema of the
\* Configs when fields says so.
Called(op, configs, field, got, fields) ==
    /\ read' = [op |-> op, configs |-> configs, field |-> field, panic |-> got.panic,
                value |-> got.value]
    /\ schemas' = IF got.panic \/ ~fields THEN schemas
                  ELSE [schemas EXCEPT ![configs[1].schema] = cacheFields(@)]
    /\ sorted' = NoSort
    /\ UNCHANGED <<pp, filter, calls, parses, readers, query>>

LessCall ==
    \E c, o \in AllConfigs : Called("Less", <<c, o>>, 0, LessOf(schemas, c, o), TRUE)

SortConfigsCall ==
    \E configs \in MixSlices :
        Called("SortConfigs", configs, 0, SortConfigsOf(schemas, configs), Len(configs) > 0)

NewConfigHeaderCall ==
    \E configs \in MixSlices :
        Called("NewConfigHeader", configs, 0, NewConfigHeaderOf(schemas, configs),
               Len(configs) > 0)

NonSingularFieldsCall ==
    \E configs \in MixSlices :
        Called("NonSingularFields", configs, 0, NonSingularFieldsOf(schemas, configs),
               Len(configs) > 1)

GetCall ==
    \E c \in AllConfigs, f \in AllFields :
        Called("Get", <<c>>, f, GetOf(schemas, c, f), FALSE)

\* s.addField(group, "z") on a Schema without a field z: the state it
\* leaves when it returned or panicked with got.
fieldAdded(i, group, got) ==
    /\ read' = [op |-> "addField", configs |-> <<>>, field |-> [schema |-> i, f |-> group],
                panic |-> got.panic, value |-> <<>>]
    /\ schemas' = IF got.panic THEN schemas ELSE [schemas EXCEPT ![i] = got.value[1].s]
    /\ sorted' = NoSort
    /\ UNCHANGED <<pp, filter, calls, parses, readers, query>>

AddFieldCall ==
    \E i \in DOMAIN schemas : \E group \in DOMAIN schemas[i].nodes :
        /\ \A f \in DOMAIN schemas[i].nodes : schemas[i].nodes[f].Name # V_z
        /\ fieldAdded(i, group, addFieldUnder(schemas[i], group, V_z))

\* Projection expressions:   a    .config,b@alpha
MixMenu ==
    { <<Projection(K_a, "first", <<>>)>>,
      <<Projection(S_config, "first", <<>>), Projection(K_b, "alpha", <<>>)>> }

MixResults ==
    { Result(<<"N">>, <<<<K_a, V_1>>, <<K_b, V_x>>>>, <<>>),
      Result(<<"N">>, <<<<K_a, V_2>>>>, <<>>) }

MixParse ==
    \E parts \in MixMenu : Len(parses) < 2 /\ Len(parses) + Len(calls) < MaxMix /\ ParseCall(parts)

MixProject ==
    \E i \in 1..Len(schemas), r \in MixResults :
        Len(parses) + Len(calls) < MaxMix /\ ProjectCall(i, r)

MixNext ==
    \/ MixParse \/ MixProject \/ LessCall \/ SortConfigsCall \/ NewConfigHeaderCall
    \/ NonSingularFieldsCall \/ GetCall \/ AddFieldCall

MixSpec == Init /\ [][MixNext]_vars

\* C27: Config.Less, SortConfigs, NewConfigHeader and NonSingularFields on
\* Configs of different Schemas, Config.Get with a Field of another Schema
\* and addField under a node that is not a group panic and return nothing.
C27_Panics ==
    /\ read.op \in {"Less", "SortConfigs", "NewConfigHeader", "NonSingularFields"}
          /\ Mixed(read.configs)
       => read.panic /\ read.value = <<>>
    /\ read.op = "Get" /\ read.configs[1].schema # read.field.schema
       => read.panic /\ read.value = <<>>
    /\ read.op = "addField" /\ schemas[read.field.schema].nodes[read.field.f].idx # -1
       => read.panic /\ read.value = <<>>

\* SortConfigs panicked on a slice whose second Config is of another
\* Schema than the first.
C27_Witness ==
    /\ read.op = "SortConfigs"
    /\ Len(read.configs) = 2
    /\ read.configs[1].schema # read.configs[2].schema
    /\ read.panic

----------------------------------------------------------------------------
(* NameSpec: the full-name extractor that newExtractorFullName returns for *)
(* an exclude list, applied to benchmark names.                            *)

\* Sub-name parts of a name, and keys of an exclude list.
MaxNameParts == 2

MaxExclude == 2

\* Sub-name parts: /a=1 /b=2 /ab=1 /a /gomaxprocs=4 /x-y
NameParts ==
    { <<"/", "a", "=", "1">>, <<"/", "b", "=", "2">>, <<"/", "a", "b", "=", "1">>,
      <<"/", "a">>, S_gomaxprocs \o <<"=", "4">>, <<"/", "x", "-", "y">> }

\* Names: N, then up to MaxNameParts sub-name parts, then -8 or nothing.
Names ==
    UNION {{<<"N">> \o Concat(ps) \o g : ps \in [1..n -> NameParts], g \in {<<>>, <<"-", "8">>}} :
           n \in 0..MaxNameParts}

\* Keys to exclude: .name /a /b /gomaxprocs a
ExcludeKeys == {S_name, K_sub, <<"/", "b">>, S_gomaxprocs, K_a}

Excludes == UNION {[1..n -> ExcludeKeys] : n \in 0..MaxExclude}

\* The state after the extractor of newExtractorFullName(exclude) was
\* applied to a Result named name.  The extractor keeps no state, so one
\* application per behaviour covers them all.
FullNameCall ==
    \E name \in Names, exclude \in Excludes :
        /\ read.op = "none"
        /\ read' = [op |-> "fullname", name |-> name, exclude |-> exclude,
                    out |-> Extract(newExtractorFullName(exclude), Result(name, <<>>, <<>>))]
        /\ UNCHANGED <<pp, filter, schemas, calls, parses, sorted, readers, query>>

NameNext == FullNameCall

NameSpec == Init /\ [][NameNext]_vars

\* The components of a name: the base, then the parts.
Components(name) == <<Parts(name).base>> \o Parts(name).parts

\* The key of a /key=value component, <<>> for any other component.
KeyOf(part) ==
    IF Len(part) > 0 /\ part[1] = "/" /\ \E i \in 1..Len(part) : part[i] = "="
    THEN SubSeq(part, 1, SetMin({i \in 1..Len(part) : part[i] = "="}) - 1)
    ELSE <<>>

\* What the k-th component of name is to become under exclude.
StandIn(name, exclude, k) ==
    IF k = 1 THEN (IF S_name \in Range(exclude) THEN <<"*">> ELSE Components(name)[1])
    ELSE IF KeyOf(Components(name)[k]) # <<>> /\ KeyOf(Components(name)[k]) \in Range(exclude)
    THEN KeyOf(Components(name)[k]) \o <<"=", "*">>
    ELSE IF /\ k = Len(Components(name))
            /\ splitGomaxprocs(name).gomaxprocs # <<>>
            /\ S_gomaxprocs \in Range(exclude)
    THEN <<"-", "*">>
    ELSE Components(name)[k]

\* C28: the full-name extractor with exclusions yields the components of
\* the full name in order, an excluded /key=value component as /key=*, an
\* excluded GOMAXPROCS suffix as -*, an excluded base name as *, and every
\* other component verbatim.
C28_StandIns ==
    read.op = "fullname" =>
        read.out = Concat([k \in 1..Len(Components(read.name)) |->
                              StandIn(read.name, read.exclude, k)])

\* N/a=1/x-y-8 was extracted with /a and /gomaxprocs excluded, as
\* N/a=*/x-y-*.
C28_Witness ==
    /\ read.op = "fullname"
    /\ read.name = <<"N", "/", "a", "=", "1", "/", "x", "-", "y", "-", "8">>
    /\ read.exclude = <<K_sub, S_gomaxprocs>>
    /\ read.out = <<"N", "/", "a", "=", "*", "/", "x", "-", "y", "-", "*">>

----------------------------------------------------------------------------
(* ResultSpec: Result.SetFileConfig and Result.GetFileConfig.  Here a      *)
(* Result is [FileConfig, len, configPos, fresh]: FileConfig is the whole  *)
(* backing array of the slice, up to its capacity, and len the length of   *)
(* the slice; configPos is a function from keys to positions (from 1), and *)
(* fresh says that configPos is nil.                                       *)

K_c == <<"c">>

ResultKeys == {K_a, K_b, K_c}

\* Values; <<>> is "".
ResultValues == {<<>>, V_x, V_y}

\* The zero Config.
ZeroConfig == [Key |-> <<>>, Value |-> <<>>]

\* &Result{FileConfig: fileConfig}
ResultLiteral(fileConfig) ==
    [FileConfig |-> fileConfig, len |-> Len(fileConfig), configPos |-> <<>>, fresh |-> TRUE]

\* The slice r.FileConfig.
Live(r) == SubSeq(r.FileConfig, 1, r.len)

\* The index FileConfigIndex constructs for a fresh Result.
constructIndex(r) ==
    [k \in {r.FileConfig[i].Key : i \in 1..r.len} |->
        SetMax({i \in 1..r.len : r.FileConfig[i].Key = k})]

\* FileConfigIndex: the Result it leaves, and pos (0 for not ok).
indexed(r, key) ==
    [r |-> r, pos |-> IF key \in DOMAIN r.configPos THEN r.configPos[key] ELSE 0]

ResultFileConfigIndex(r, key) ==
    indexed(IF r.fresh THEN [r EXCEPT !.fresh = FALSE, !.configPos = constructIndex(r)] ELSE r,
            key)

\* append(r.FileConfig, Config{key, nil}) when the capacity is used up: a
\* new array of capacity newcap.
appended(r, key, newcap) ==
    [k \in 1..newcap |->
        IF k <= r.len THEN r.FileConfig[k]
        ELSE IF k = r.len + 1 THEN [Key |-> key, Value |-> <<>>]
        ELSE ZeroConfig]

\* ensureFileConfig after FileConfigIndex returned ix, taking every key
\* for a new one.
ensuredAppend(ix, key, newcap) ==
    IF ix.r.len < Len(ix.r.FileConfig)
    THEN [r |-> [ix.r EXCEPT !.configPos = (key :> (ix.r.len + 1)) @@ @,
                             !.len = @ + 1,
                             !.FileConfig[ix.r.len + 1].Key = key],
          pos |-> ix.r.len + 1]
    ELSE [r |-> [ix.r EXCEPT !.configPos = (key :> (ix.r.len + 1)) @@ @,
                             !.len = @ + 1,
                             !.FileConfig = appended(ix.r, key, newcap)],
          pos |-> ix.r.len + 1]

\* ensureFileConfig after FileConfigIndex returned ix: the Result it
\* leaves, and the position of the Config it returns.
ensured(ix, key, newcap) == IF ix.pos # 0 THEN ix ELSE ensuredAppend(ix, key, newcap)

ensureFileConfig(r, key, newcap) == ensured(ResultFileConfigIndex(r, key), key, newcap)

\* *cfg, *cfg2 = *cfg2, *cfg
swapped(fc, pos, last) == [fc EXCEPT ![pos] = fc[last], ![last] = fc[pos]]

\* deleteFileConfig after FileConfigIndex returned ix, without the update
\* of the position of the Config that was moved.
deletedStale(ix, key) ==
    IF ix.pos = 0 THEN ix.r
    ELSE [ix.r EXCEPT !.FileConfig = swapped(@, ix.pos, ix.r.len),
                      !.len = @ - 1,
                      !.configPos = [k \in DOMAIN @ \ {key} |-> @[k]]]

\* deleteFileConfig after FileConfigIndex returned ix.
deleted(ix, key) ==
    IF ix.pos = 0 THEN ix.r
    ELSE [ix.r EXCEPT !.FileConfig = swapped(@, ix.pos, ix.r.len),
                      !.len = @ - 1,
                      !.configPos =
                          [k \in (DOMAIN @ \cup {ix.r.FileConfig[ix.r.len].Key}) \ {key} |->
                              IF k = ix.r.FileConfig[ix.r.len].Key THEN ix.pos ELSE @[k]]]

deleteFileConfig(r, key) == deleted(ResultFileConfigIndex(r, key), key)

\* cfg.Value = append(cfg.Value[:0], value...)
valueSet(e, value) == [e.r EXCEPT !.FileConfig[e.pos].Value = value]

\* SetFileConfig
SetFileConfig(r, key, value, newcap) ==
    IF value = <<>> THEN deleteFileConfig(r, key)
    ELSE valueSet(ensureFileConfig(r, key, newcap), value)

\* GetFileConfig: the Result it leaves, and the value it returns.
got(ix) ==
    [r |-> ix.r, value |-> IF ix.pos = 0 THEN <<>> ELSE ix.r.FileConfig[ix.pos].Value]

GetFileConfig(r, key) == got(ResultFileConfigIndex(r, key))

\* The capacities append may give a slice of length len and capacity cap
\* that it has to grow by one: at least len + 1, at most twice cap.
Capacities(r) ==
    (r.len + 1)..(IF 2 * Len(r.FileConfig) > r.len + 1 THEN 2 * Len(r.FileConfig) ELSE r.len + 1)

\* Result literals:   {}   {a: x}   {a: x, b: y}   {b: y, a: x}
Literals ==
    { <<>>,
      <<[Key |-> K_a, Value |-> V_x]>>,
      <<[Key |-> K_a, Value |-> V_x], [Key |-> K_b, Value |-> V_y]>>,
      <<[Key |-> K_b, Value |-> V_y], [Key |-> K_a, Value |-> V_x]>> }

\* r := &Result{...}
NewResultCall ==
    \E fileConfig \in Literals :
        /\ read.op = "none"
        /\ read' = [op |-> "Result", r |-> ResultLiteral(fileConfig),
                    before |-> ResultLiteral(fileConfig), key |-> <<>>, value |-> <<>>]
        /\ UNCHANGED <<pp, filter, schemas, calls, parses, sorted, readers, query>>

\* r.SetFileConfig(key, value)
SetFileConfigCall ==
    /\ read.op \in {"Result", "SetFileConfig", "GetFileConfig"}
    /\ \E key \in ResultKeys, value \in ResultValues : \E newcap \in Capacities(read.r) :
        /\ read' = [op |-> "SetFileConfig", r |-> SetFileConfig(read.r, key, value, newcap),
                    before |-> read.r, key |-> key, value |-> value]
        /\ UNCHANGED <<pp, filter, schemas, calls, parses, sorted, readers, query>>

\* r.GetFileConfig(key)
GetFileConfigCall ==
    \E key \in ResultKeys :
        /\ read.op \in {"Result", "SetFileConfig", "GetFileConfig"}
        /\ read' = [op |-> "GetFileConfig", r |-> GetFileConfig(read.r, key).r,
                    before |-> read.r, key |-> key, value |-> GetFileConfig(read.r, key).value]
        /\ UNCHANGED <<pp, filter, schemas, calls, parses, sorted, readers, query>>

ResultNext == NewResultCall \/ SetFileConfigCall \/ GetFileConfigCall

ResultSpec == Init /\ [][ResultNext]_vars

\* The keys of r.FileConfig.
LiveKeys(r) == {r.FileConfig[i].Key : i \in 1..r.len}

\* Whether some SetFileConfig call was made on the Result.
WasSet == read.op \in {"SetFileConfig", "GetFileConfig"} /\ ~read.r.fresh

\* C29: after SetFileConfig calls on a Result that started empty or as a
\* literal with unique keys, the keys of FileConfig are pairwise distinct,
\* the index maps every key to its position in FileConfig, and the index
\* has no other entry.
C29_Index ==
    WasSet =>
        /\ \A i, j \in 1..read.r.len :
               read.r.FileConfig[i].Key = read.r.FileConfig[j].Key => i = j
        /\ \A i \in 1..read.r.len :
               /\ read.r.FileConfig[i].Key \in DOMAIN read.r.configPos
               /\ read.r.configPos[read.r.FileConfig[i].Key] = i
        /\ DOMAIN read.r.configPos = LiveKeys(read.r)

\* A key in front of two others was deleted from a Result of three keys,
\* and the last one took its position.
C29_Witness ==
    /\ read.op = "SetFileConfig"
    /\ read.value = <<>>
    /\ read.before.len = 3
    /\ read.before.FileConfig[1].Key = read.key
    /\ read.r.len = 2
    /\ read.r.FileConfig[1].Key = read.before.FileConfig[3].Key

\* The value GetFileConfig returns.
ValueOfKey(r, key) == GetFileConfig(r, key).value

\* The position of key in r.FileConfig, 0 if it is not there.
PositionOf(r, key) ==
    IF key \in LiveKeys(r) THEN SetMin({i \in 1..r.len : r.FileConfig[i].Key = key}) ELSE 0

\* C30: SetFileConfig(k, v) with v not "" makes GetFileConfig(k) return v,
\* with v "" makes it return "" and k absent, and leaves the value of every
\* other key; a new key is appended, an existing key updated in place, and
\* on deletion the last entry takes the position of the deleted key.
C30_SetGet ==
    read.op = "SetFileConfig" =>
        /\ ValueOfKey(read.r, read.key) = read.value
        /\ read.value = <<>> => read.key \notin LiveKeys(read.r)
        /\ \A k \in ResultKeys \ {read.key} :
               ValueOfKey(read.r, k) = ValueOfKey(read.before, k)
        /\ read.value # <<>> /\ PositionOf(read.before, read.key) = 0 =>
               Live(read.r) = Append(Live(read.before), [Key |-> read.key, Value |-> read.value])
        /\ read.value # <<>> /\ PositionOf(read.before, read.key) # 0 =>
               Live(read.r) = [Live(read.before) EXCEPT
                                  ![PositionOf(read.before, read.key)].Value = read.value]
        /\ read.value = <<>> /\ PositionOf(read.before, read.key) = 0 =>
               Live(read.r) = Live(read.before)
        /\ read.value = <<>> /\ PositionOf(read.before, read.key) # 0 =>
               /\ read.r.len = read.before.len - 1
               /\ \A i \in 1..read.r.len :
                      read.r.FileConfig[i] =
                          IF i = PositionOf(read.before, read.key)
                          THEN read.before.FileConfig[read.before.len]
                          ELSE read.before.FileConfig[i]

\* The value of the second of three keys was replaced by another value.
C30_Witness ==
    /\ read.op = "SetFileConfig"
    /\ read.value # <<>>
    /\ read.before.len = 3
    /\ read.before.FileConfig[2].Key = read.key
    /\ read.before.FileConfig[2].Value # read.value
    /\ read.r.FileConfig[2] = [Key |-> read.key, Value |-> read.value]

----------------------------------------------------------------------------
(* UnitsSpec: Units.Set and Units.Get.  A Units is [Metadata, index,      *)
(* fresh]: index is a function from <<unit, key>> to positions (from 1),   *)
(* and fresh says that index is nil.                                       *)

\* Units ns/op and B/op, metadata keys better and assume, written short.
U_ns == <<"n", "s">>

U_B == <<"B">>

M_better == <<"b", "e">>

M_assume == <<"a", "s">>

UnitNames == {U_ns, U_B}

MetadataKeys == {M_better, M_assume}

MetadataValues == {V_x, V_y}

UnitMetadata(unit, key, value) == [Unit |-> unit, Key |-> key, Value |-> value]

\* Units{Metadata: metadata}
UnitsLiteral(metadata) == [Metadata |-> metadata, index |-> <<>>, fresh |-> TRUE]

\* The index Get creates for a fresh Units.
createIndex(u) ==
    [uk \in {<<u.Metadata[i].Unit, u.Metadata[i].Key>> : i \in 1..Len(u.Metadata)} |->
        SetMax({i \in 1..Len(u.Metadata) :
                   <<u.Metadata[i].Unit, u.Metadata[i].Key>> = uk})]

\* Units.Get once the index exists: the Units it leaves, value and ok.
looked(u, unit, key) ==
    IF <<unit, key>> \in DOMAIN u.index
    THEN [u |-> u, value |-> u.Metadata[u.index[<<unit, key>>]].Value, ok |-> TRUE]
    ELSE [u |-> u, value |-> <<>>, ok |-> FALSE]

\* Units.Get
UnitsGet(u, unit, key) ==
    looked(IF u.fresh THEN [u EXCEPT !.fresh = FALSE, !.index = createIndex(u)] ELSE u,
           unit, key)

\* A variant of Units.Set after Get returned have, which replaces a value
\* that is set.
setOver(have, unit, key, value) ==
    IF have.ok
    THEN [u |-> [have.u EXCEPT !.Metadata[have.u.index[<<unit, key>>]].Value = value],
          err |-> FALSE]
    ELSE [u |-> [have.u EXCEPT
                    !.index = (<<unit, key>> :> (Len(have.u.Metadata) + 1)) @@ @,
                    !.Metadata = Append(@, UnitMetadata(unit, key, value))],
          err |-> FALSE]

\* Units.Set after Get returned have: the Units it leaves, and whether it
\* returned an error.
setHave(have, unit, key, value) ==
    IF have.ok THEN [u |-> have.u, err |-> have.value # value]
    ELSE [u |-> [have.u EXCEPT
                    !.index = (<<unit, key>> :> (Len(have.u.Metadata) + 1)) @@ @,
                    !.Metadata = Append(@, UnitMetadata(unit, key, value))],
          err |-> FALSE]

\* Units.Set
UnitsSet(u, unit, key, value) == setHave(UnitsGet(u, unit, key), unit, key, value)

\* Units literals:   {}   {ns better=x}   {ns better=x, B assume=y}
UnitsLiterals ==
    { <<>>,
      <<UnitMetadata(U_ns, M_better, V_x)>>,
      <<UnitMetadata(U_ns, M_better, V_x), UnitMetadata(U_B, M_assume, V_y)>> }

\* u := Units{...}
NewUnitsCall ==
    \E metadata \in UnitsLiterals :
        /\ read.op = "none"
        /\ read' = [op |-> "Units", u |-> UnitsLiteral(metadata),
                    before |-> UnitsLiteral(metadata), unit |-> <<>>, key |-> <<>>,
                    value |-> <<>>, err |-> FALSE]
        /\ UNCHANGED <<pp, filter, schemas, calls, parses, sorted, readers, query>>

\* The state a Set call that returned ret leaves.
unitsSet(unit, key, value, ret) ==
    /\ read' = [op |-> "Set", u |-> ret.u, before |-> read.u, unit |-> unit, key |-> key,
                value |-> value, err |-> ret.err]
    /\ UNCHANGED <<pp, filter, schemas, calls, parses, sorted, readers, query>>

\* u.Set(unit, key, value)
UnitsSetCall ==
    /\ read.op \in {"Units", "Set", "Get"}
    /\ \E unit \in UnitNames, key \in MetadataKeys, value \in MetadataValues :
           unitsSet(unit, key, value, UnitsSet(read.u, unit, key, value))

\* The state a Get call that returned ret leaves.
unitsGot(unit, key, ret) ==
    /\ read' = [op |-> "Get", u |-> ret.u, before |-> read.u, unit |-> unit, key |-> key,
                value |-> ret.value, err |-> ~ret.ok]
    /\ UNCHANGED <<pp, filter, schemas, calls, parses, sorted, readers, query>>

\* u.Get(unit, key)
UnitsGetCall ==
    /\ read.op \in {"Units", "Set", "Get"}
    /\ \E unit \in UnitNames, key \in MetadataKeys :
           unitsGot(unit, key, UnitsGet(read.u, unit, key))

UnitsNext == NewUnitsCall \/ UnitsSetCall \/ UnitsGetCall

UnitsSpec == Init /\ [][UnitsNext]_vars

\* Whether s is an initial part of t.
IsPrefix(s, t) == Len(s) <= Len(t) /\ SubSeq(t, 1, Len(s)) = s

\* What Get(unit, key) returns on u: <<value, ok>>.
Have(u, unit, key) == <<UnitsGet(u, unit, key).value, UnitsGet(u, unit, key).ok>>

\* C31: Units.Set(unit, key, v) succeeds exactly when (unit, key) is unset
\* or has the value v; when it fails it changes nothing; a value that is
\* set is never changed or removed by a Set call, and Metadata only grows.
C31_SetOnce ==
    read.op = "Set" =>
        /\ ~read.err <=> \/ ~Have(read.before, read.unit, read.key)[2]
                         \/ Have(read.before, read.unit, read.key)[1] = read.value
        /\ read.err => read.u.Metadata = read.before.Metadata
        /\ ~read.err => Have(read.u, read.unit, read.key) = <<read.value, TRUE>>
        /\ \A unit \in UnitNames, key \in MetadataKeys :
               Have(read.before, unit, key)[2] =>
                   Have(read.u, unit, key) = Have(read.before, unit, key)
        /\ IsPrefix(read.before.Metadata, read.u.Metadata)

\* Set returned an error for a key that has another value, after three
\* metadata were set.
C31_Witness ==
    /\ read.op = "Set"
    /\ read.err
    /\ Len(read.u.Metadata) = 3
    /\ Have(read.before, read.unit, read.key)[2]
    /\ Have(read.before, read.unit, read.key)[1] # read.value

----------------------------------------------------------------------------
(* PartsSpec: Name.Parts and Name.Base on every name over a small          *)
(* alphabet.                                                               *)

\* Bytes of a name.
MaxNameLen == 6

NameBytes == {"N", "/", "-", "8"}

AllNames == UNION {[1..n -> NameBytes] : n \in 0..MaxNameLen}

\* The state after n.Parts() and n.Base() returned.  Both are functions
\* of the name alone, so one name per behaviour covers them all.
PartsCall ==
    \E name \in AllNames :
        /\ read.op = "none"
        /\ read' = [op |-> "Parts", name |-> name, base |-> Parts(name).base,
                    parts |-> Parts(name).parts, nameBase |-> Base(name)]
        /\ UNCHANGED <<pp, filter, schemas, calls, parses, sorted, readers, query>>

PartsNext == PartsCall

PartsSpec == Init /\ [][PartsNext]_vars

\* Whether part is - followed by digits.
IsGomaxprocs(part) ==
    /\ Len(part) >= 2
    /\ part[1] = "-"
    /\ \A i \in 2..Len(part) : IsDigit(part[i])

\* C32: the base and the parts Name.Parts returns concatenate to the name,
\* every part begins with / except that the last one may be a -<digits>
\* suffix, and the base is what Name.Base returns.
C32_Parts ==
    read.op = "Parts" =>
        /\ read.base \o Concat(read.parts) = read.name
        /\ \A k \in 1..Len(read.parts) :
               /\ read.parts[k] # <<>>
               /\ \/ read.parts[k][1] = "/"
                  \/ k = Len(read.parts) /\ IsGomaxprocs(read.parts[k])
        /\ read.base = read.nameBase

\* N/-8-8 was split into N, /-8 and -8.
C32_Witness ==
    /\ read.op = "Parts"
    /\ read.name = <<"N", "/", "-", "8", "-", "8">>
    /\ read.base = <<"N">>
    /\ read.parts = <<<<"/", "-", "8">>, <<"-", "8">>>>

----------------------------------------------------------------------------
(* ReaderSpec: Reader.Reset and Reader.Scan over files of key lines and    *)
(* benchmark lines.  The Reader's result is a Result as in ResultSpec.     *)
(* The files have no Unit line, and a benchmark line stands for a well     *)
(* formed one.  A file is given by the lines each Scan call finds next in  *)
(* it: some lines that are no benchmark lines, and then a benchmark line   *)
(* or the end of the file.                                                 *)

\* Lines that a Scan call reads in front of a benchmark line or the end.
MaxLines == 2

benchmarkPrefix == <<"B", "e", "n", "c", "h", "m", "a", "r", "k">>

\* unicode.IsLower, unicode.IsUpper and unicode.IsSpace on the bytes of
\* FileLines.
IsLowerRune(c) == c \in {"a", "b", "c", "x", "y", "e", "n", "h", "m", "r", "k"}

IsUpperRune(c) == c \in {"A", "B", "N"}

IsSpaceRune(c) == c \in {" ", "\t"}

\* The loop of parseKeyValueLine from index i: the index of the colon that
\* ends the key, or 0 if the function returns without a key.
RECURSIVE keyColon(_, _)
keyColon(line, i) ==
    IF i > Len(line) THEN 0
    ELSE IF i = 1 /\ ~IsLowerRune(line[i]) THEN 0
    ELSE IF IsSpaceRune(line[i]) \/ IsUpperRune(line[i]) THEN 0
    ELSE IF i > 1 /\ line[i] = ":" THEN i
    ELSE keyColon(line, i + 1)

\* val without its leading spaces and tabs.
RECURSIVE trimLeft(_)
trimLeft(val) ==
    IF val # <<>> /\ val[1] \in {" ", "\t"} THEN trimLeft(Tail(val)) ELSE val

\* parseKeyValueLine after the loop found the colon at i.
keyValueAt(line, i) ==
    IF i = 0 THEN [key |-> <<>>, val |-> <<>>, ok |-> FALSE]
    ELSE [key |-> SubSeq(line, 1, i - 1),
          val |-> trimLeft(SubSeq(line, i + 1, Len(line))),
          ok |-> i = Len(line) \/ line[i + 1] \in {" ", "\t"}]

parseKeyValueLine(line) == keyValueAt(line, keyColon(line, 1))

\* The capacity append gives the FileConfig of r when it has to grow:
\* just enough, or twice the capacity.
grown(r, double) ==
    IF double /\ 2 * Len(r.FileConfig) > r.len + 1 THEN 2 * Len(r.FileConfig) ELSE r.len + 1

\* A variant of the body of the loop of Scan that keeps a key whose line
\* has no value.
keyLineKeeping(r, kv, double) ==
    valueSet(ensureFileConfig(r, kv.key, grown(r, double)), kv.val)

\* The body of the loop of Scan for a key line that parsed as kv.
keyLine(r, kv, double) ==
    IF Len(kv.val) = 0 THEN deleteFileConfig(r, kv.key)
    ELSE valueSet(ensureFileConfig(r, kv.key, grown(r, double)), kv.val)

\* The loop of Scan: the result, the input that is left, the key lines it
\* met, as parsed, and what Scan returns.
RECURSIVE scanLoop(_, _, _, _)
scanLoop(r, input, seen, double) ==
    IF input = <<>> THEN [r |-> r, input |-> input, seen |-> seen, ok |-> FALSE]
    ELSE IF HasPrefix(Head(input), benchmarkPrefix)
    THEN [r |-> r, input |-> Tail(input), seen |-> seen, ok |-> TRUE]
    ELSE IF parseKeyValueLine(Head(input)).ok
    THEN scanLoop(keyLine(r, parseKeyValueLine(Head(input)), double), Tail(input),
                  Append(seen, parseKeyValueLine(Head(input))), double)
    ELSE scanLoop(r, Tail(input), seen, double)

\* The loop of Reset over initConfig, a sequence of [key, val].
RECURSIVE initLoop(_, _, _)
initLoop(r, initConfig, double) ==
    IF initConfig = <<>> THEN r
    ELSE initLoop(SetFileConfig(r, Head(initConfig).key, Head(initConfig).val,
                                grown(r, double)),
                  Tail(initConfig), double)

\* The wiped Result of Reset.
wiped(r) == [r EXCEPT !.len = 0, !.configPos = <<>>]

\* The zero Reader.
ZeroReader == ResultLiteral(<<>>)

\* The lines of a file:   a:<tab>y   a:   b:<sp><sp>   c: y   a:x
\* and BenchmarkN.
FileLines ==
    { <<"a", ":", "\t", "y">>, <<"a", ":">>, <<"b", ":", " ", " ">>,
      <<"c", ":", " ", "y">>, <<"a", ":", "x">>, benchmarkPrefix \o <<"N">> }

BenchmarkLine == benchmarkPrefix \o <<"N">>

\* What a Scan call may find next in the file.
Inputs ==
    UNION {{lines \o end : lines \in [1..n -> FileLines \ {BenchmarkLine}],
                           end \in {<<>>, <<BenchmarkLine>>}} : n \in 0..MaxLines}

\* The value of the last key line for each key after the key lines seen.
RECURSIVE lastAfter(_, _)
lastAfter(last, seen) ==
    IF seen = <<>> THEN last
    ELSE lastAfter([last EXCEPT ![Head(seen).key] = Head(seen).val], Tail(seen))

NoLines == [k \in ResultKeys |-> <<>>]

\* initConfig:   none   a x   b y a x
InitConfigs ==
    { <<>>,
      <<[key |-> K_a, val |-> V_x]>>,
      <<[key |-> K_b, val |-> V_y], [key |-> K_a, val |-> V_x]>> }

\* The Result of the Reader in this state.
ReaderResult == IF read.op = "none" THEN ZeroReader ELSE read.r

\* r.Reset(file, "", initConfig...)
ResetCall ==
    \E initConfig \in InitConfigs, double \in BOOLEAN :
        /\ read.op \in {"none", "Reset", "Scan"}
        /\ read' = [op |-> "Reset", r |-> initLoop(wiped(ReaderResult), initConfig, double),
                    last |-> lastAfter(NoLines, initConfig), seen |-> <<>>,
                    before |-> <<>>, ok |-> FALSE]
        /\ UNCHANGED <<pp, filter, schemas, calls, parses, sorted, readers, query>>

\* The state a Scan call that ended as s leaves.
scanned(s) ==
    /\ read' = [op |-> "Scan", r |-> s.r, last |-> lastAfter(read.last, s.seen),
                seen |-> s.seen, before |-> Live(read.r), ok |-> s.ok]
    /\ UNCHANGED <<pp, filter, schemas, calls, parses, sorted, readers, query>>

\* r.Scan(), before the end of the file was reached.
ScanCall ==
    /\ read.op = "Reset" \/ (read.op = "Scan" /\ read.ok)
    /\ \E input \in Inputs, double \in BOOLEAN :
           scanned(scanLoop(read.r, input, <<>>, double))

ReaderNext == ResetCall \/ ScanCall

ReaderSpec == Init /\ [][ReaderNext]_vars

\* The keys of a FileConfig, in order.
KeysOf(fileConfig) == [i \in 1..Len(fileConfig) |-> fileConfig[i].Key]

\* Whether every key line of seen gives a value to a key of fileConfig.
OnlyResets(seen, fileConfig) ==
    \A i \in 1..Len(seen) :
        seen[i].val # <<>> /\ seen[i].key \in Range(KeysOf(fileConfig))

\* C33: in every result a Reader returns, FileConfig has exactly the keys
\* whose last key line since Reset, initConfig included, had a value, each
\* once and with that value; and key lines that only give values to keys
\* that are there leave the order of the keys.
C33_FileConfig ==
    read.op = "Scan" /\ read.ok =>
        /\ \A i, j \in 1..read.r.len :
               read.r.FileConfig[i].Key = read.r.FileConfig[j].Key => i = j
        /\ LiveKeys(read.r) = {k \in ResultKeys : read.last[k] # <<>>}
        /\ \A i \in 1..read.r.len :
               read.r.FileConfig[i].Value = read.last[read.r.FileConfig[i].Key]
        /\ OnlyResets(read.seen, read.before) =>
               KeysOf(Live(read.r)) = KeysOf(read.before)

\* A result was returned after a key of initConfig was removed by a key
\* line with an empty value and the other got a new value.
C33_Witness ==
    /\ read.op = "Scan" /\ read.ok
    /\ Len(read.before) = 2
    /\ read.before[1].Key = K_b
    /\ Len(read.seen) = 2
    /\ read.seen[1].key = K_b /\ read.seen[1].val = <<>>
    /\ read.seen[2].key = K_a /\ read.seen[2].val = V_y
    /\ Live(read.r) = <<[Key |-> K_a, Value |-> V_y]>>

----------------------------------------------------------------------------
(* LateSpec: sessions in which keys are named after a group has projected  *)
(* records.                                                                *)

\* Parse and Project calls.
MaxLate == 4

\* Projection expressions:   .config   a   .fullname   /a
LateMenu ==
    { <<Projection(S_config, "first", <<>>)>>, <<Projection(K_a, "first", <<>>)>>,
      <<Projection(S_fullname, "first", <<>>)>>, <<Projection(K_sub, "first", <<>>)>> }

LateResults ==
    { Result(N_a1, <<<<K_a, V_1>>, <<K_b, V_x>>>>, <<>>),
      Result(<<"N">>, <<<<K_a, V_2>>>>, <<>>) }

LateParse ==
    \E parts \in LateMenu : Len(parses) + Len(calls) < MaxLate /\ ParseCall(parts)

LateProject ==
    \E i \in 1..Len(schemas), r \in LateResults :
        Len(parses) + Len(calls) < MaxLate /\ ProjectCall(i, r)

LateNext == LateParse \/ LateProject

LateSpec == Init /\ [][LateNext]_vars

\* Whether the Config c of s shows key, a key named specifically, only as
\* excluded: no value in a .config group, a stand-in in .fullname.
Excluded(s, c, key) ==
    /\ \A f \in groupFields(s) : s.nodes[f].Name = key => Get(s, c, f) = <<>>
    /\ key = S_name \/ HasPrefix(key, <<"/">>) =>
           \A f \in fullnameFields(s) : standsIn(key, Get(s, c, f))

\* C34: every Config produced after a Parse call that names a key shows
\* the key as excluded from .config groups and .fullname values, also when
\* the group's Schema, or another .fullname Schema of the parser, projected
\* records before that call.
C34_ExclusionLater ==
    \A k \in DOMAIN calls : \A n \in DOMAIN parses :
        parses[n].ok /\ parses[n].projected < k =>
            \A j \in DOMAIN parses[n].parts :
                parses[n].parts[j].Key \notin {S_config, S_fullname} =>
                    \A c \in Range(calls[k].out) :
                        Excluded(schemas[calls[k].schema], c, parses[n].parts[j].Key)

\* C35: every Projection with Order "fixed" that a successful
\* ParseProjection returns has a Fixed list that is not empty, however the
\* order was written.
C35_FixedNotEmpty ==
    \A n \in DOMAIN parses :
        parses[n].ok =>
            \A j \in DOMAIN parses[n].parts :
                parses[n].parts[j].Order = "fixed" => parses[n].parts[j].Fixed # <<>>

\* The session state of a ProjectionParser: the specific keys recorded and
\* whether .config and .fullname were projected.
SessionState(p) == <<p.configKeys, p.fullnameKeys, p.haveConfig, p.haveFullname>>

\* A step that is a Parse call that returned an error.
FailedParse == Len(parses') = Len(parses) + 1 /\ ~parses'[Len(parses')].ok

\* C36: a Parse call that returns an error leaves the session state of the
\* ProjectionParser as it was before the call.
C36_FailedParse == [][FailedParse => SessionState(pp') = SessionState(pp)]_vars

\* C37: a Parse call that returns an error leaves the Filter passed to it
\* accepting the same records as before: no filter of a fixed-order part of
\* the failed expression is added.
C37_FilterKept ==
    \A n \in DOMAIN parses :
        ~parses[n].ok =>
            /\ parses[n].after = parses[n].before
            /\ \A r \in Results : Match(parses[n].after, r) = Match(parses[n].before, r)

\* A Parse call failed on its second part, after a first part with a fixed
\* order, and a record that the fixed order does not list is accepted.
C37_Witness ==
    /\ Len(parses) = 1 /\ ~parses[1].ok
    /\ Len(parses[1].parts) = 2
    /\ parses[1].parts[1].Order = "fixed" /\ parses[1].parts[1].Fixed # <<>>
    /\ \E r \in Results :
           /\ Match(filter.match, r)
           /\ ~Match(fixedFilter(newExtractor(parses[1].parts[1].Key).ext,
                                 parses[1].parts[1].Fixed), r)

----------------------------------------------------------------------------
(* ParseNumSpec: parseNum on every value over a small alphabet.            *)

\* Bytes of a value.
MaxValueLen == 4

ValueBytes == {"1", ".", "k", "i", "B", "x", "-"}

AllValues == UNION {[1..n -> ValueBytes] : n \in 1..MaxValueLen}

\* The state after parseNum(x) returned.  parseNum is a function of x
\* alone, so one value per behaviour covers them all.
ParseNumCall ==
    \E x \in AllValues :
        /\ read.op = "none"
        /\ read' = [op |-> "parseNum", x |-> x, v |-> parseNum(x)]
        /\ UNCHANGED <<pp, filter, schemas, calls, parses, sorted, readers, query>>

ParseNumNext == ParseNumCall

ParseNumSpec == Init /\ [][ParseNumNext]_vars

\* The endings [prefix][i][B|b], the empty one included.
NumSuffixes ==
    {pre \o i \o b : pre \in {<<>>} \cup {<<c>> : c \in {"k"} \cup Range(numPrefixes)},
                     i \in {<<>>, <<"i">>}, b \in {<<>>, <<"B">>, <<"b">>}}

\* Whether the whole of x is a float literal, or a number of digits and
\* points that is a float literal followed by one of the endings.
WholeNumber(x) ==
    \/ ParseFloat(x).ok
    \/ \E n \in 1..Len(x) :
           /\ \A k \in 1..n : isNum(x[k])
           /\ ParseFloat(SubSeq(x, 1, n)).ok
           /\ SubSeq(x, n + 1, Len(x)) \in NumSuffixes

\* C38: under the num order a value counts as a number only if its whole
\* text is a float literal or a number followed by [prefix][i][B|b]; any
\* other value is unparsable.
C38_WholeText == read.op = "parseNum" /\ read.v.ok => WholeNumber(read.x)

----------------------------------------------------------------------------
(* TablesSpec: Builder.ToTables and its goroutines.  A table of the        *)
(* Builder is the set of the keys <<row, col>> of its cells; column 1 is   *)
(* the baseline column where the table has it.  A goroutine is named by    *)
(* <<t, row, col>>, the cell it summarizes, or by <<t, 0, col>>, the       *)
(* column it summarizes.  Its position is "idle" before the go statement,  *)
(* then "run", "compare" (before the comparison is computed), "release"    *)
(* (before <-limit), "done" (before wg.Done()) and "end".                  *)

\* Tables of a Builder, and 2*runtime.GOMAXPROCS(-1).
MaxTables == 2

LimitCap == 2

\* Table shapes: a row with both columns and a row with the second column
\* only; a single cell; a table without cells in the first column.
TableShapes == { {<<1, 1>>, <<1, 2>>, <<2, 2>>}, {<<1, 1>>}, {<<1, 2>>} }

TableInputs == UNION {[1..n -> TableShapes] : n \in 1..MaxTables}

\* The cells and the column goroutines of tables.
CellIds(tables) == UNION {{<<t, k[1], k[2]>> : k \in tables[t]} : t \in DOMAIN tables}

ColIds(tables) == UNION {{<<t, 0, k[2]>> : k \in tables[t]} : t \in DOMAIN tables}

\* The cells and the columns of table t.
CellsOf(tables, t) == {id \in CellIds(tables) : id[1] = t}

ColsOf(tables, t) == {id \in ColIds(tables) : id[1] = t}

\* colCfgs[0] of table t.
baselineCfg(tables, t) == SetMin({k[2] : k \in tables[t]})

\* The key of the baseline of cell id, whether or not there is such a cell.
BaseOf(tables, id) == <<id[1], id[2], baselineCfg(tables, id[1])>>

\* Whether cell.Baseline is set by the loop that starts the goroutines.
HasBaseline(tables, id) ==
    id[3] # baselineCfg(tables, id[1]) /\ BaseOf(tables, id) \in CellIds(tables)

\* A variant of wg.Wait() that does not wait.
WaitedNever(wg) == TRUE

\* wg.Wait() returns.
Waited(wg) == wg = 0

\* A step of ToTables or of a goroutine, from the state b to the state c.
Stepped(c) ==
    /\ read' = c
    /\ UNCHANGED <<pp, filter, schemas, calls, parses, sorted, readers, query>>

\* b.ToTables(opts) is called, and has sorted the tables.
ToTablesCall ==
    \E tables \in TableInputs :
        /\ read.op = "none"
        /\ Stepped([op |-> "ToTables", tables |-> tables, pc |-> "table", t |-> 1,
                    todo |-> {}, limit |-> 0, wg |-> 0,
                    cells |-> [id \in CellIds(tables) |->
                                  [made |-> FALSE, baseline |-> FALSE, summary |-> FALSE,
                                   comparison |-> FALSE]],
                    g |-> [id \in CellIds(tables) \cup ColIds(tables) |-> "idle"]])

InToTables == read.op = "ToTables"

\* The TableCells of table t are created with their Samples, and
\* wg.Add(len(cTable.cells)).
MakeCells ==
    /\ InToTables /\ read.pc = "table"
    /\ Stepped([read EXCEPT
           !.cells = [id \in DOMAIN @ |->
                         IF id[1] = read.t THEN [@[id] EXCEPT !.made = TRUE] ELSE @[id]],
           !.wg = @ + Cardinality(CellsOf(read.tables, read.t)),
           !.todo = CellsOf(read.tables, read.t),
           !.pc = "cells"])

\* One round of the loop that populates the cells: the baseline is looked
\* up, limit <- struct{}{} gets through, and the goroutine is started.
StartCell ==
    /\ InToTables /\ read.pc = "cells" /\ read.limit < LimitCap
    /\ \E id \in read.todo :
           Stepped([read EXCEPT
               !.cells[id].baseline = HasBaseline(read.tables, id),
               !.limit = @ + 1,
               !.g[id] = "run",
               !.todo = @ \ {id}])

\* The loop over the cells of table t is over.
EndCells ==
    /\ InToTables /\ read.pc = "cells" /\ read.todo = {}
    /\ Stepped(IF read.t < Len(read.tables)
               THEN [read EXCEPT !.t = @ + 1, !.pc = "table"]
               ELSE [read EXCEPT !.pc = "wait"])

\* The first wg.Wait() returns.
WaitCells ==
    /\ InToTables /\ read.pc = "wait" /\ Waited(read.wg)
    /\ Stepped([read EXCEPT !.pc = "cols", !.t = 1, !.todo = ColsOf(read.tables, 1)])

\* One round of the loop over table.Cols: limit <- struct{}{} gets
\* through, wg.Add(1), and the goroutine is started.
StartCol ==
    /\ InToTables /\ read.pc = "cols" /\ read.todo # {} /\ read.limit < LimitCap
    /\ \E id \in read.todo :
           /\ \A o \in read.todo : id[3] <= o[3]
           /\ Stepped([read EXCEPT
                  !.limit = @ + 1,
                  !.wg = @ + 1,
                  !.g[id] = "run",
                  !.todo = @ \ {id}])

\* The loop over the columns of table t is over.
EndCols ==
    /\ InToTables /\ read.pc = "cols" /\ read.todo = {}
    /\ Stepped(IF read.t < Len(read.tables)
               THEN [read EXCEPT !.t = @ + 1, !.todo = ColsOf(read.tables, read.t + 1)]
               ELSE [read EXCEPT !.pc = "wait2"])

\* The second wg.Wait() returns, and ToTables.
WaitCols ==
    /\ InToTables /\ read.pc = "wait2" /\ read.wg = 0
    /\ Stepped([read EXCEPT !.pc = "returned"])

\* summarizeCell writes cell.Summary.
CellSummary ==
    /\ InToTables
    /\ \E id \in CellIds(read.tables) :
           /\ read.g[id] = "run"
           /\ Stepped([read EXCEPT
                  !.cells[id].summary = TRUE,
                  !.g[id] = IF read.cells[id].baseline THEN "compare" ELSE "release"])

\* summarizeCell writes cell.Comparison.
CellComparison ==
    /\ InToTables
    /\ \E id \in CellIds(read.tables) :
           /\ read.g[id] = "compare"
           /\ Stepped([read EXCEPT !.cells[id].comparison = TRUE, !.g[id] = "release"])

\* summarizeCol
ColSummary ==
    /\ InToTables
    /\ \E id \in ColIds(read.tables) :
           /\ read.g[id] = "run"
           /\ Stepped([read EXCEPT !.g[id] = "release"])

\* <-limit
Release ==
    /\ InToTables
    /\ \E id \in DOMAIN read.g :
           /\ read.g[id] = "release"
           /\ read.limit > 0
           /\ Stepped([read EXCEPT !.limit = @ - 1, !.g[id] = "done"])

\* wg.Done()
Done ==
    /\ InToTables
    /\ \E id \in DOMAIN read.g :
           /\ read.g[id] = "done"
           /\ Stepped([read EXCEPT !.wg = @ - 1, !.g[id] = "end"])

TablesNext ==
    \/ ToTablesCall \/ MakeCells \/ StartCell \/ EndCells \/ WaitCells \/ StartCol
    \/ EndCols \/ WaitCols \/ CellSummary \/ CellComparison \/ ColSummary \/ Release
    \/ Done

\* ToTables and every goroutine it started keep running.
TablesSpec == Init /\ [][TablesNext]_vars /\ WF_vars(TablesNext)

\* Whether cell id is completely written.
CellWritten(id) ==
    read.cells[id].summary /\ (read.cells[id].baseline => read.cells[id].comparison)

\* The safety part of C39.
TablesSafe ==
    InToTables =>
        /\ \A c \in ColIds(read.tables) :
               read.g[c] # "idle" => \A id \in CellIds(read.tables) : CellWritten(id)
        /\ \A id \in CellIds(read.tables) :
               read.g[id] # "idle" /\ read.cells[id].baseline =>
                   read.cells[BaseOf(read.tables, id)].made
        /\ read.pc = "returned" =>
               \A id \in DOMAIN read.g : read.g[id] = "end"

\* C39: in ToTables every cell's Summary and Comparison are written before a
\* column summary goroutine is started, the Sample of a baseline cell exists
\* before a goroutine that compares with it is started, every goroutine has
\* finished when ToTables returns, and ToTables does return: no send on
\* limit blocks forever.
C39_ToTables == []TablesSafe /\ (InToTables ~> (InToTables /\ read.pc = "returned"))

\* ToTables returned for two tables, after a comparison was computed.
C39_Witness ==
    /\ InToTables
    /\ read.pc = "returned"
    /\ Len(read.tables) = 2
    /\ \E id \in CellIds(read.tables) : read.cells[id].comparison

----------------------------------------------------------------------------
(* WriterSpec: Writer.Write.  A Writer is [fileConfig, order]: fileConfig  *)
(* is a function from the remembered keys to their values.  The unit      *)
(* metadata, the blank lines and the benchmark line are left out.  The     *)
(* results written have unique keys and values that are not empty.         *)

\* Keys of the FileConfig of a result.
MaxWriterKeys == 3

\* The FileConfigs of the results: up to MaxWriterKeys different keys, in
\* any order, each with the value x or y.
WriterConfigs ==
    {fc \in UNION {[1..n -> [Key : ResultKeys, Value : {V_x, V_y}]] : n \in 0..MaxWriterKeys} :
        \A i, j \in DOMAIN fc : fc[i].Key = fc[j].Key => i = j}

\* NewWriter(w)
NewWriter == [fileConfig |-> <<>>, order |-> <<>>]

\* s without its i-th element.
WithoutAt(s, i) == SubSeq(s, 1, i - 1) \o SubSeq(s, i + 1, Len(s))

\* The loop of writeFileConfig over w.order, from i: the Writer it leaves
\* and the key lines it has written, as [key, val].
RECURSIVE walkKeys(_, _, _, _)
walkKeys(w, res, i, out) ==
    IF i > Len(w.order) THEN [w |-> w, out |-> out]
    ELSE IF ResultFileConfigIndex(res, w.order[i]).pos = 0
    THEN walkKeys([w EXCEPT !.fileConfig = [k \in DOMAIN @ \ {w.order[i]} |-> @[k]],
                            !.order = WithoutAt(@, i)],
                  res, i, Append(out, [key |-> w.order[i], val |-> <<>>]))
    ELSE IF w.fileConfig[w.order[i]] =
                res.FileConfig[ResultFileConfigIndex(res, w.order[i]).pos].Value
    THEN walkKeys(w, res, i + 1, out)
    ELSE walkKeys([w EXCEPT !.fileConfig[w.order[i]] =
                       res.FileConfig[ResultFileConfigIndex(res, w.order[i]).pos].Value],
                  res, i + 1,
                  Append(out, [key |-> w.order[i],
                               val |-> res.FileConfig[
                                           ResultFileConfigIndex(res, w.order[i]).pos].Value]))

\* The loop of writeFileConfig over res.FileConfig that finds new keys.
RECURSIVE newKeys(_, _, _, _)
newKeys(w, res, j, out) ==
    IF j > res.len THEN [w |-> w, out |-> out]
    ELSE IF res.FileConfig[j].Key \in DOMAIN w.fileConfig THEN newKeys(w, res, j + 1, out)
    ELSE newKeys([w EXCEPT
                     !.fileConfig = (res.FileConfig[j].Key :> res.FileConfig[j].Value) @@ @,
                     !.order = Append(@, res.FileConfig[j].Key)],
                 res, j + 1,
                 Append(out, [key |-> res.FileConfig[j].Key, val |-> res.FileConfig[j].Value]))

\* writeFileConfig after the loop over w.order ended as walked.
findNew(walked, res) ==
    IF Cardinality(DOMAIN walked.w.fileConfig) # res.len
    THEN newKeys(walked.w, res, 1, walked.out)
    ELSE walked

writeFileConfig(w, res) == findNew(walkKeys(w, res, 1, <<>>), res)

\* A variant of the test of Write that compares the lengths only.
changedLen(w, res) == Cardinality(DOMAIN w.fileConfig) # res.len

\* Whether Write finds that a file config changed.
changed(w, res) ==
    \/ Cardinality(DOMAIN w.fileConfig) # res.len
    \/ \E j \in 1..res.len :
           \/ res.FileConfig[j].Key \notin DOMAIN w.fileConfig
           \/ w.fileConfig[res.FileConfig[j].Key] # res.FileConfig[j].Value

\* Writer.Write: the Writer it leaves and the key lines it has written.
Write(w, res) ==
    IF changed(w, res) THEN writeFileConfig(w, res) ELSE [w |-> w, out |-> <<>>]

\* The file configuration a reader has after the key lines of out, having
\* had last before.
RECURSIVE Replay(_, _)
Replay(last, out) ==
    IF out = <<>> THEN last
    ELSE Replay([last EXCEPT ![Head(out).key] = Head(out).val], Tail(out))

\* The state w.Write(res) leaves when it ended as wrote.
written(res, wrote, replay) ==
    /\ read' = [op |-> "Write", w |-> wrote.w, res |-> Live(res), out |-> wrote.out,
                replay |-> Replay(replay, wrote.out)]
    /\ UNCHANGED <<pp, filter, schemas, calls, parses, sorted, readers, query>>

\* w.Write(res), on a new Writer or on the one that wrote before.
WriteCall ==
    /\ read.op \in {"none", "Write"}
    /\ \E fc \in WriterConfigs :
           written(ResultLiteral(fc),
                   Write(IF read.op = "none" THEN NewWriter ELSE read.w, ResultLiteral(fc)),
                   IF read.op = "none" THEN NoLines ELSE read.replay)

WriterNext == WriteCall

WriterSpec == Init /\ [][WriterNext]_vars

\* C40: after every Writer.Write(res) the remembered file configuration
\* has exactly the keys of res.FileConfig, with equal values, the key order
\* list holds each remembered key exactly once, and the key lines written
\* so far, applied in order, give the file configuration of res.
C40_Remembered ==
    read.op = "Write" =>
        /\ DOMAIN read.w.fileConfig = Range(KeysOf(read.res))
        /\ \A i \in 1..Len(read.res) :
               read.w.fileConfig[read.res[i].Key] = read.res[i].Value
        /\ Range(read.w.order) = DOMAIN read.w.fileConfig
        /\ Len(read.w.order) = Cardinality(DOMAIN read.w.fileConfig)
        /\ \A k \in ResultKeys :
               read.replay[k] = IF k \in DOMAIN read.w.fileConfig THEN read.w.fileConfig[k]
                                ELSE <<>>

\* A Write call wrote a line that deletes a key, a line that changes a
\* value and a line for a new key.
C40_Witness ==
    /\ read.op = "Write"
    /\ Len(read.out) = 3
    /\ read.out[1].val = <<>>
    /\ read.out[2].key \in DOMAIN read.w.fileConfig
    /\ Len(read.w.order) = 2 /\ read.w.order[1] = read.out[2].key
    /\ read.w.order[2] = read.out[3].key

====
